---- MODULE Spec2Model ----
(***************************************************************************)
(* babel-plugin-globals: rewriting of ES6 import/export constructs into    *)
(* reads and writes of a shared global namespace.                          *)
(*                                                                         *)
(* Strings are sequences of one-character strings, so that split, join,    *)
(* extname, basename, resolve and relative are computed character by       *)
(* character as the JavaScript code computes them.  Syntax-tree nodes are  *)
(* records with a "type" field, named as Babel names them.                 *)
(*                                                                         *)
(* The repository holds several variants of the plugin.  Definitions       *)
(* without prefix model src/index.js; the prefix RR_ marks the             *)
(* root-relative variant (src/unnamed/part_000, lines 1-320).              *)
(***************************************************************************)
EXTENDS Naturals, Sequences, FiniteSets

VARIABLES
    createdGlobals,      \* plugin instance: memo of the namespaces already created
    filenameNoExtCache,  \* plugin instance: <<>> (null) or <<s>>, s the cached name
    filename,            \* state.file.opts.filename of the file being transformed
    opts,                \* state.opts: the plugin options of this transform
    program,             \* the top-level statements the traversal has reached (the input)
    body,                \* Program node.body, as rewritten so far (the output)
    phase,               \* "idle", "visiting", "failed"
    last,                \* the construct visited last, its replacement, whether it threw
    reused,              \* the plugin instance has transformed a file before
    root                 \* the paths defined under the global object the outputs run on

vars == <<createdGlobals, filenameNoExtCache, filename, opts, program, body, phase,
          last, reused, root>>

----------------------------------------------------------------------------
(* Bounds of the model                                                     *)

\* largest number of top-level statements of one file
MaxNodes == 2

\* largest number of specifiers / declarators of one import or export
MaxSpecifiers == 2

----------------------------------------------------------------------------
(* Characters and the strings the files, sources and options are made of   *)

DOT == "."
SEP == "/"

s_this     == <<"t","h","i","s">>
s_Named    == <<"N","a","m","e","d">>
s_unknown  == <<"u","n","k","n","o","w","n">>
s_default  == <<"d","e","f","a","u","l","t">>
s_call     == <<"c","a","l","l">>
s_myGlobal == <<"m","y","G","l","o","b","a","l">>
s_foo      == <<"f","o","o">>
s_bar      == <<"b","a","r">>
s_baz      == <<"b","a","z">>
s_qux      == <<"q","u","x">>
s_a        == <<"a">>
s_Foo      == <<"F","o","o">>

\* JavaScript null / undefined / '' where only truthiness is read
NoName == <<>>

----------------------------------------------------------------------------
(* String.prototype.split, Array.prototype.join, and Node's path module    *)
(* (POSIX flavour)                                                         *)

RECURSIVE Join(_, _)
Join(parts, sep) ==
    IF parts = <<>> THEN <<>>
    ELSE IF Len(parts) = 1 THEN parts[1]
    ELSE parts[1] \o <<sep>> \o Join(Tail(parts), sep)

\* index of the first occurrence of character c in s, 0 when there is none
RECURSIVE IndexOf(_, _, _)
IndexOf(s, c, from) ==
    IF from > Len(s) THEN 0
    ELSE IF s[from] = c THEN from
    ELSE IndexOf(s, c, from + 1)

\* s.split(c): ''.split(c) is [''], 'a..b'.split('.') is ['a', '', 'b']
RECURSIVE Split(_, _)
Split(s, c) ==
    LET i == IndexOf(s, c, 1)
    IN IF i = 0 THEN <<s>>
       ELSE <<SubSeq(s, 1, i - 1)>> \o Split(SubSeq(s, i + 1, Len(s)), c)

\* index of the last occurrence of character c in s, 0 when there is none
RECURSIVE LastIndexOf(_, _, _)
LastIndexOf(s, c, from) ==
    IF from < 1 THEN 0
    ELSE IF s[from] = c THEN from
    ELSE LastIndexOf(s, c, from - 1)

\* s without its trailing path separators
RECURSIVE StripTrailingSep(_)
StripTrailingSep(s) ==
    IF s # <<>> /\ s[Len(s)] = SEP THEN StripTrailingSep(SubSeq(s, 1, Len(s) - 1))
    ELSE s

\* the last portion of a path, trailing separators ignored
LastPart(p) ==
    LET q == StripTrailingSep(p)
        i == LastIndexOf(q, SEP, Len(q))
    IN SubSeq(q, i + 1, Len(q))

EndsWith(s, suffix) ==
    /\ Len(suffix) <= Len(s)
    /\ SubSeq(s, Len(s) - Len(suffix) + 1, Len(s)) = suffix

\* path.extname: from the last '.' of the last portion to its end; '' when
\* there is no '.', when the only '.' is the first character of the portion,
\* or when the portion is '..'
path_extname(p) ==
    LET part == LastPart(p)
        d    == LastIndexOf(part, DOT, Len(part))
    IN IF d = 0 \/ d = 1 \/ part = <<DOT, DOT>> THEN <<>>
       ELSE SubSeq(part, d, Len(part))

\* path.basename(p, ext)
path_basename(p, ext) ==
    LET part == LastPart(p)
    IN IF ext # <<>> /\ part # ext /\ EndsWith(part, ext)
       THEN SubSeq(part, 1, Len(part) - Len(ext))
       ELSE part

\* path.dirname
path_dirname(p) ==
    LET q == StripTrailingSep(p)
        i == LastIndexOf(q, SEP, Len(q))
    IN IF p = <<>> THEN <<DOT>>
       ELSE IF q = <<>> THEN <<SEP>>
       ELSE IF i = 0 THEN <<DOT>>
       ELSE IF StripTrailingSep(SubSeq(q, 1, i)) = <<>> THEN <<SEP>>
       ELSE StripTrailingSep(SubSeq(q, 1, i))

IsAbsolute(p) == p # <<>> /\ p[1] = SEP

\* the segments of a path with '.' and '' dropped and '..' applied; an
\* absolute path never climbs above the root, a relative one keeps its
\* leading '..'
RECURSIVE NormalizeSegments(_, _, _)
NormalizeSegments(segs, acc, allowAbove) ==
    IF segs = <<>> THEN acc
    ELSE LET s == Head(segs)
             rest == Tail(segs)
         IN IF s = <<>> \/ s = <<DOT>> THEN NormalizeSegments(rest, acc, allowAbove)
            ELSE IF s = <<DOT, DOT>>
                 THEN IF acc # <<>> /\ acc[Len(acc)] # <<DOT, DOT>>
                      THEN NormalizeSegments(rest, SubSeq(acc, 1, Len(acc) - 1), allowAbove)
                      ELSE IF allowAbove
                           THEN NormalizeSegments(rest, Append(acc, s), allowAbove)
                           ELSE NormalizeSegments(rest, acc, allowAbove)
            ELSE NormalizeSegments(rest, Append(acc, s), allowAbove)

\* process.cwd(): the root directory the transforms run in
Cwd == <<SEP, "w">>

\* the segments of path.resolve(from, to)
ResolveSegments(from, to) ==
    LET joined == IF IsAbsolute(to) THEN to
                  ELSE IF IsAbsolute(from) THEN from \o <<SEP>> \o to
                  ELSE Cwd \o <<SEP>> \o from \o <<SEP>> \o to
    IN NormalizeSegments(Split(joined, SEP), <<>>, FALSE)

\* path.resolve(from, to): an absolute, normalized path without trailing '/'
path_resolve(from, to) == <<SEP>> \o Join(ResolveSegments(from, to), SEP)

\* length of the longest common prefix of two segment lists
RECURSIVE CommonPrefix(_, _)
CommonPrefix(a, b) ==
    IF a = <<>> \/ b = <<>> \/ Head(a) # Head(b) THEN 0
    ELSE 1 + CommonPrefix(Tail(a), Tail(b))

\* path.relative(from, to)
path_relative(from, to) ==
    LET f == ResolveSegments(Cwd, from)
        t == ResolveSegments(Cwd, to)
        n == CommonPrefix(f, t)
        ups == [i \in 1..(Len(f) - n) |-> <<DOT, DOT>>]
    IN Join(ups \o SubSeq(t, n + 1, Len(t)), SEP)

----------------------------------------------------------------------------
(* Syntax-tree nodes (babel.types builders)                                *)

Identifier(name) == [type |-> "Identifier", name |-> name]

ThisExpression == [type |-> "ThisExpression"]

ObjectExpression == [type |-> "ObjectExpression", properties |-> <<>>]

StringLiteral(value) == [type |-> "StringLiteral", value |-> value]

NumericLiteral == [type |-> "NumericLiteral"]

MemberExpression(object, property, computed) ==
    [type |-> "MemberExpression", object |-> object, property |-> property,
     computed |-> computed]

LogicalExpression(operator, left, right) ==
    [type |-> "LogicalExpression", operator |-> operator, left |-> left,
     right |-> right]

AssignmentExpression(left, right) ==
    [type |-> "AssignmentExpression", operator |-> "=", left |-> left,
     right |-> right]

ExpressionStatement(expression) ==
    [type |-> "ExpressionStatement", expression |-> expression]

\* `var <id> = <init>;` as the plugin builds it for an import binding
VariableDeclarator(id, init) == [id |-> id, init |-> <<init>>]

VariableDeclaration(kind, declarations) ==
    [type |-> "VariableDeclaration", kind |-> kind, declarations |-> declarations]

FunctionDeclaration(name) == [type |-> "FunctionDeclaration", id |-> Identifier(name)]

ClassDeclaration(name) == [type |-> "ClassDeclaration", id |-> Identifier(name)]

\* `(function () { <contents> }).call(this)`
\* variant: the function is called without a receiver
ClosureCall_NoReceiver(contents) ==
    ExpressionStatement(
        [type |-> "CallExpression",
         callee |-> MemberExpression(
             [type |-> "FunctionExpression", id |-> <<>>, params |-> <<>>,
              body |-> [type |-> "BlockStatement", body |-> contents]],
             Identifier(s_call), FALSE),
         arguments |-> <<>>])
ClosureCall(contents) ==
    ExpressionStatement(
        [type |-> "CallExpression",
         callee |-> MemberExpression(
             [type |-> "FunctionExpression", id |-> <<>>, params |-> <<>>,
              body |-> [type |-> "BlockStatement", body |-> contents]],
             Identifier(s_call), FALSE),
         arguments |-> <<Identifier(s_this)>>])

IsClosureCall(stmt) ==
    /\ stmt.type = "ExpressionStatement"
    /\ stmt.expression.type = "CallExpression"
    /\ stmt.expression.callee.type = "MemberExpression"
    /\ ~stmt.expression.callee.computed
    /\ stmt.expression.callee.property = Identifier(s_call)
    /\ stmt.expression.callee.object.type = "FunctionExpression"
    /\ stmt.expression.callee.object.id = <<>>
    /\ stmt.expression.callee.object.params = <<>>
    /\ stmt.expression.arguments = <<Identifier(s_this)>>

ClosureContents(stmt) == stmt.expression.callee.object.body.body

\* the import/export constructs as the parser hands them to the visitors
ImportDefaultSpecifier(local) ==
    [type |-> "ImportDefaultSpecifier", local |-> Identifier(local), imported |-> <<>>]

ImportNamespaceSpecifier(local) ==
    [type |-> "ImportNamespaceSpecifier", local |-> Identifier(local), imported |-> <<>>]

ImportSpecifier(local, imported) ==
    [type |-> "ImportSpecifier", local |-> Identifier(local),
     imported |-> <<Identifier(imported)>>]

ExportSpecifier(local, exported) ==
    [type |-> "ExportSpecifier", local |-> Identifier(local),
     exported |-> Identifier(exported)]

ImportDeclarationNode(source, specifiers) ==
    [type |-> "ImportDeclaration", source |-> StringLiteral(source),
     specifiers |-> specifiers]

ExportAllDeclarationNode(source) ==
    [type |-> "ExportAllDeclaration", source |-> StringLiteral(source)]

ExportDefaultDeclarationNode(declaration) ==
    [type |-> "ExportDefaultDeclaration", declaration |-> declaration]

\* declaration and source are <<>> when absent, <<x>> when present
ExportNamedDeclarationNode(declaration, specifiers, source) ==
    [type |-> "ExportNamedDeclaration", declaration |-> declaration,
     specifiers |-> specifiers, source |-> source]

ModuleConstructTypes ==
    {"ImportDeclaration", "ExportAllDeclaration", "ExportDefaultDeclaration",
     "ExportNamedDeclaration"}

IsModuleConstruct(node) == node.type \in ModuleConstructTypes

NoNode == [type |-> "None"]

\* `var a = 2;`: a statement that is no import/export construct
PlainStatement ==
    VariableDeclaration("var", <<VariableDeclarator(Identifier(s_a), NumericLiteral)>>)

----------------------------------------------------------------------------
(* src/index.js: the helper functions.  A function that reads or writes    *)
(* the plugin's memo takes and returns a context record                    *)
(*   [createdGlobals, filenameNoExtCache, nodes, threw]                    *)
(* where nodes is the replacement list under construction and threw tells  *)
(* that the filename-required error has been thrown.                       *)

\* the state object Babel passes to a visitor
State(fname, o) == [file |-> [opts |-> [filename |-> fname]], opts |-> o]

\* TRUE when the function returns, FALSE when it throws
\* variant: the filename is never required
assertFilenameRequired_Never(fname) == TRUE
assertFilenameRequired(fname) == fname # s_unknown

RECURSIVE removeExtensions(_)
removeExtensions(fname) ==
    LET extension == path_extname(fname)
    IN IF extension = <<>> THEN fname
       ELSE removeExtensions(path_basename(fname, extension))

\* !filenameNoExtCache: null and '' are both falsy
CacheIsFalsy(cache) == cache = <<>> \/ cache = << <<>> >>

\* returns [threw, cache, value]
getFilenameNoExt(cache, fname) ==
    IF CacheIsFalsy(cache)
    THEN IF assertFilenameRequired(fname)
         THEN [threw |-> FALSE, cache |-> <<removeExtensions(fname)>>,
               value |-> removeExtensions(fname)]
         ELSE [threw |-> TRUE, cache |-> cache, value |-> <<>>]
    ELSE [threw |-> FALSE, cache |-> cache, value |-> cache[1]]

\* the globalName functions a caller may supply; each returns the whole path
\*   "TestExports": 'this.Test.Exports.' + (name ? name : 'default')
\*   "Views":       'this.MyModule.Views' + (name ? '.' + name : '')
s_TestExports == <<"t","h","i","s",".","T","e","s","t",".","E","x","p","o","r","t","s">>
\*   "ByModule": 'this.' + (name ? 'Named' : 'Main') + '.' + filePath + '.'
\*                 + (name || 'default') + (isWildcard ? 'All' : ''),
\*                 a function of all its inputs
s_Main == <<"M","a","i","n">>
s_All == <<"A","l","l">>
s_Views == <<"t","h","i","s",".","M","y","M","o","d","u","l","e",".","V","i","e","w","s">>

CallGlobalName(fn, state, filePath, name, opt_isWildcard) ==
    IF fn = "TestExports"
    THEN s_TestExports \o <<DOT>> \o (IF name # <<>> THEN name ELSE s_default)
    ELSE IF fn = "ByModule"
    THEN s_this \o <<DOT>> \o (IF name # <<>> THEN s_Named ELSE s_Main)
           \o <<DOT>> \o filePath
           \o <<DOT>> \o (IF name # <<>> THEN name ELSE s_default)
           \o (IF opt_isWildcard THEN s_All ELSE <<>>)
    ELSE s_Views \o (IF name # <<>> THEN <<DOT>> \o name ELSE <<>>)

StringGlobalName(value) == [kind |-> "string", value |-> value]
FunctionGlobalName(fn) == [kind |-> "function", fn |-> fn]

\* the path-based name for a string globalName (the else branch)
\* variant: only a name selects the Named namespace, a wildcard does not
GlobalIdentifierName_NameOnly(state, filePath, name, opt_isWildcard) ==
    LET globalName == IF name # <<>>
                      THEN state.opts.globalName.value \o s_Named
                      ELSE state.opts.globalName.value
        resolved   == path_resolve(path_dirname(state.file.opts.filename), filePath)
        splitPath  == Split(resolved, SEP)
        moduleName == splitPath[Len(splitPath)]
    IN s_this \o <<DOT>> \o globalName \o <<DOT>> \o moduleName
         \o (IF name # <<>> THEN <<DOT>> \o name ELSE <<>>)
GlobalIdentifierName(state, filePath, name, opt_isWildcard) ==
    LET globalName == IF name # <<>> \/ opt_isWildcard
                      THEN state.opts.globalName.value \o s_Named
                      ELSE state.opts.globalName.value
        resolved   == path_resolve(path_dirname(state.file.opts.filename), filePath)
        splitPath  == Split(resolved, SEP)
        moduleName == splitPath[Len(splitPath)]
    IN s_this \o <<DOT>> \o globalName \o <<DOT>> \o moduleName
         \o (IF name # <<>> THEN <<DOT>> \o name ELSE <<>>)

\* returns [threw, id]
\* variant: the name is appended to what a globalName function returns
getGlobalIdentifier_NameAppended(state, filePath, name, opt_isWildcard) ==
    IF ~assertFilenameRequired(state.file.opts.filename)
    THEN [threw |-> TRUE, id |-> NoNode]
    ELSE IF state.opts.globalName.kind = "function"
    THEN [threw |-> FALSE,
          id |-> Identifier(CallGlobalName(state.opts.globalName.fn, state,
                                           filePath, name, opt_isWildcard)
                            \o (IF name # <<>> THEN <<DOT>> \o name ELSE <<>>))]
    ELSE [threw |-> FALSE,
          id |-> Identifier(GlobalIdentifierName(state, filePath, name,
                                                 opt_isWildcard))]
getGlobalIdentifier(state, filePath, name, opt_isWildcard) ==
    IF ~assertFilenameRequired(state.file.opts.filename)
    THEN [threw |-> TRUE, id |-> NoNode]
    ELSE IF state.opts.globalName.kind = "function"
    THEN [threw |-> FALSE,
          id |-> Identifier(CallGlobalName(state.opts.globalName.fn, state,
                                           filePath, name, opt_isWildcard))]
    ELSE [threw |-> FALSE,
          id |-> Identifier(GlobalIdentifierName(state, filePath, name,
                                                 opt_isWildcard))]

\* the statement createGlobal pushes for the namespace named currentGlobalName
CreateGlobalStatement(currentGlobalName) ==
    ExpressionStatement(
        AssignmentExpression(Identifier(currentGlobalName), ObjectExpression))

\* createdGlobals is a nested object; it is modelled by the set of the key
\* paths it holds: {a: {b: {}}} is {<<a>>, <<a, b>>}.  The loop runs over
\* keys[2] .. keys[keys.length - 2] (0-based), i is 1-based here.
\* variant: a created namespace is not recorded
RECURSIVE createGlobalLoop_Unrecorded(_, _, _, _, _, _)
createGlobalLoop_Unrecorded(keys, i, currentGlobal, currentGlobalName, created, nodes) ==
    IF i > Len(keys) - 1 THEN [createdGlobals |-> created, nodes |-> nodes]
    ELSE LET nextName == currentGlobalName \o <<DOT>> \o keys[i]
             nextGlobal == Append(currentGlobal, keys[i])
         IN createGlobalLoop_Unrecorded(keys, i + 1, nextGlobal, nextName, created,
                Append(nodes, CreateGlobalStatement(nextName)))
RECURSIVE createGlobalLoop(_, _, _, _, _, _)
createGlobalLoop(keys, i, currentGlobal, currentGlobalName, created, nodes) ==
    IF i > Len(keys) - 1 THEN [createdGlobals |-> created, nodes |-> nodes]
    ELSE LET nextName == currentGlobalName \o <<DOT>> \o keys[i]
             nextGlobal == Append(currentGlobal, keys[i])
         IN IF nextGlobal \notin created
            THEN createGlobalLoop(keys, i + 1, nextGlobal, nextName,
                                  created \cup {nextGlobal},
                                  Append(nodes, CreateGlobalStatement(nextName)))
            ELSE createGlobalLoop(keys, i + 1, nextGlobal, nextName, created, nodes)

\* variant: createdGlobals is not consulted
createGlobal_Unmemoized(created, name, nodes) ==
    LET keys == Split(name, DOT)
        made == createGlobalLoop(keys, 3, <<>>, s_this \o <<DOT>> \o keys[2], {}, nodes)
    IN IF Len(keys) < 2 THEN [createdGlobals |-> created, nodes |-> nodes]
       ELSE [createdGlobals |-> created \cup made.createdGlobals, nodes |-> made.nodes]
\* returns [createdGlobals, nodes]
createGlobal(created, name, nodes) ==
    LET keys == Split(name, DOT)
    IN IF Len(keys) < 2 THEN [createdGlobals |-> created, nodes |-> nodes]
       ELSE createGlobalLoop(keys, 3, <<>>, s_this \o <<DOT>> \o keys[2], created, nodes)

\* returns the context after the assignment has been pushed
assignToGlobal(ctx, id, expression) ==
    LET made == createGlobal(ctx.createdGlobals, id.name, ctx.nodes)
    IN [ctx EXCEPT !.createdGlobals = made.createdGlobals,
                   !.nodes = Append(made.nodes,
                                    ExpressionStatement(
                                        AssignmentExpression(id, expression)))]

assignDeclarationToGlobal(state, ctx, declaration) ==
    IF ctx.threw THEN ctx
    ELSE LET noExt == getFilenameNoExt(ctx.filenameNoExtCache, state.file.opts.filename)
             got   == getGlobalIdentifier(state, noExt.value, declaration.id.name, FALSE)
         IN IF noExt.threw THEN [ctx EXCEPT !.threw = TRUE]
            ELSE IF got.threw
                 THEN [ctx EXCEPT !.threw = TRUE, !.filenameNoExtCache = noExt.cache]
            ELSE assignToGlobal([ctx EXCEPT !.filenameNoExtCache = noExt.cache],
                                got.id, declaration.id)

----------------------------------------------------------------------------
(* src/index.js: what each visitor computes.  Each returns the context     *)
(* after the handler: the replacement list in nodes, the memo as the       *)
(* handler leaves it, and threw.                                           *)

Context(created, cache) ==
    [createdGlobals |-> created, filenameNoExtCache |-> cache, nodes |-> <<>>,
     threw |-> FALSE]

ImportedName(specifier) ==
    IF specifier.imported # <<>> THEN specifier.imported[1].name ELSE NoName

RECURSIVE ImportSpecifiersLoop(_, _, _, _)
ImportSpecifiersLoop(state, node, i, ctx) ==
    IF i > Len(node.specifiers) \/ ctx.threw THEN ctx
    ELSE LET specifier == node.specifiers[i]
             got == getGlobalIdentifier(
                        state,
                        removeExtensions(node.source.value),
                        ImportedName(specifier),
                        specifier.type = "ImportNamespaceSpecifier")
         IN IF got.threw THEN [ctx EXCEPT !.threw = TRUE]
            ELSE ImportSpecifiersLoop(state, node, i + 1,
                     [ctx EXCEPT !.nodes = Append(@,
                         VariableDeclaration("var",
                             <<VariableDeclarator(specifier.local, got.id)>>))])

\* variant: the visitor looks up the name of the current file first
ImportDeclarationVisitor_ReadsFilename(state, node, ctx) ==
    LET noExt == getFilenameNoExt(ctx.filenameNoExtCache, state.file.opts.filename)
    IN IF noExt.threw THEN [ctx EXCEPT !.threw = TRUE]
       ELSE ImportSpecifiersLoop(state, node, 1,
                                 [ctx EXCEPT !.filenameNoExtCache = noExt.cache])
ImportDeclarationVisitor(state, node, ctx) ==
    ImportSpecifiersLoop(state, node, 1, ctx)

\* variant: the memo and the cache are reset
ExportAllDeclarationVisitor_Reset(state, node, ctx) ==
    [ctx EXCEPT !.createdGlobals = {}, !.filenameNoExtCache = <<>>]
ExportAllDeclarationVisitor(state, node, ctx) == ctx

ExportDefaultDeclarationVisitor(state, node, ctx) ==
    LET noExt == getFilenameNoExt(ctx.filenameNoExtCache, state.file.opts.filename)
        got   == getGlobalIdentifier(state, noExt.value, NoName, FALSE)
    IN IF noExt.threw THEN [ctx EXCEPT !.threw = TRUE]
       ELSE IF got.threw
            THEN [ctx EXCEPT !.threw = TRUE, !.filenameNoExtCache = noExt.cache]
       ELSE assignToGlobal([ctx EXCEPT !.filenameNoExtCache = noExt.cache],
                           got.id, node.declaration)

RECURSIVE DeclarationsLoop(_, _, _, _)
DeclarationsLoop(state, declarations, i, ctx) ==
    IF i > Len(declarations) \/ ctx.threw THEN ctx
    ELSE DeclarationsLoop(state, declarations, i + 1,
                          assignDeclarationToGlobal(state, ctx, declarations[i]))

\* one turn of node.specifiers.forEach in ExportNamedDeclaration
\* variant: a re-export reads the source module's export of the exported name
ExportSpecifierStep_ExportedName(state, node, specifier, ctx) ==
    LET fromSource == IF node.source # <<>>
                      THEN getGlobalIdentifier(state, node.source[1].value,
                                               specifier.exported.name, FALSE)
                      ELSE [threw |-> FALSE, id |-> specifier.exported]
        idToAssign == fromSource.id
        noExt == getFilenameNoExt(ctx.filenameNoExtCache, state.file.opts.filename)
        got   == getGlobalIdentifier(state, noExt.value, specifier.exported.name, FALSE)
    IN IF fromSource.threw \/ noExt.threw THEN [ctx EXCEPT !.threw = TRUE]
       ELSE IF got.threw
            THEN [ctx EXCEPT !.threw = TRUE, !.filenameNoExtCache = noExt.cache]
       ELSE assignToGlobal([ctx EXCEPT !.filenameNoExtCache = noExt.cache],
                           got.id, idToAssign)
ExportSpecifierStep(state, node, specifier, ctx) ==
    LET fromSource == IF node.source # <<>>
                      THEN getGlobalIdentifier(state, node.source[1].value,
                                               specifier.local.name, FALSE)
                      ELSE [threw |-> FALSE, id |-> specifier.exported]
        idToAssign == fromSource.id
        noExt == getFilenameNoExt(ctx.filenameNoExtCache, state.file.opts.filename)
        got   == getGlobalIdentifier(state, noExt.value, specifier.exported.name, FALSE)
    IN IF fromSource.threw \/ noExt.threw THEN [ctx EXCEPT !.threw = TRUE]
       ELSE IF got.threw
            THEN [ctx EXCEPT !.threw = TRUE, !.filenameNoExtCache = noExt.cache]
       ELSE assignToGlobal([ctx EXCEPT !.filenameNoExtCache = noExt.cache],
                           got.id, idToAssign)

RECURSIVE ExportSpecifiersLoop(_, _, _, _)
ExportSpecifiersLoop(state, node, i, ctx) ==
    IF i > Len(node.specifiers) \/ ctx.threw THEN ctx
    ELSE ExportSpecifiersLoop(state, node, i + 1,
                              ExportSpecifierStep(state, node, node.specifiers[i], ctx))

\* variant: the declaration is pushed after the assignments of its names
ExportNamedDeclarationVisitor_DeclarationLast(state, node, ctx) ==
    IF node.declaration # <<>>
    THEN LET declaration == node.declaration[1]
             assigned == IF declaration.type = "VariableDeclaration"
                         THEN DeclarationsLoop(state, declaration.declarations, 1, ctx)
                         ELSE assignDeclarationToGlobal(state, ctx, declaration)
         IN [assigned EXCEPT !.nodes = Append(@, declaration)]
    ELSE ExportSpecifiersLoop(state, node, 1, ctx)
ExportNamedDeclarationVisitor(state, node, ctx) ==
    IF node.declaration # <<>>
    THEN LET declaration == node.declaration[1]
             pushed == [ctx EXCEPT !.nodes = Append(@, declaration)]
         IN IF declaration.type = "VariableDeclaration"
            THEN DeclarationsLoop(state, declaration.declarations, 1, pushed)
            ELSE assignDeclarationToGlobal(state, pushed, declaration)
    ELSE ExportSpecifiersLoop(state, node, 1, ctx)

----------------------------------------------------------------------------------------------------------------------------------------
(* The traversal of one file.  The statements of the file are drawn when   *)
(* the traversal reaches them: no visitor reads a statement the traversal  *)
(* has not reached yet, and the closure built by the Program visitor holds *)
(* the statement list itself, which the visitors then rewrite in place.    *)

\* the statements inside the closure the Program visitor built
Contents == ClosureContents(body[1])

\* nodePath.replaceWithMultiple(replacements) for the statement at index i
ReplaceWithMultiple(stmts, i, replacements) ==
    SubSeq(stmts, 1, i - 1) \o replacements \o SubSeq(stmts, i + 1, Len(stmts))

HasConstruct(stmts) == \E i \in 1..Len(stmts) : IsModuleConstruct(stmts[i])

\* the traversal can reach one more statement of the file
AtStatement == phase = "visiting" /\ Len(program) < MaxNodes

\* a module has at most one default export: the parser rejects a second one
NoDefaultExportYet ==
    \A i \in 1..Len(program) : program[i].type # "ExportDefaultDeclaration"

\* variant: the replacement list built so far is put in place also when
\* the visitor threw
Visited_PartialReplacement(node, ctx) ==
    /\ createdGlobals' = ctx.createdGlobals
    /\ filenameNoExtCache' = ctx.filenameNoExtCache
    /\ program' = Append(program, node)
    /\ last' = [node |-> node, replacements |-> ctx.nodes, threw |-> ctx.threw]
    /\ phase' = IF ctx.threw THEN "failed" ELSE "visiting"
    /\ body' = <<ClosureCall(ReplaceWithMultiple(Append(Contents, node),
                                                 Len(Contents) + 1, ctx.nodes))>>
    /\ UNCHANGED <<filename, opts, reused, root>>
\* the effect of a visitor that ended with context ctx on the construct
\* node: replaced when the visitor returned, left in place when it threw
Visited(node, ctx) ==
    /\ createdGlobals' = ctx.createdGlobals
    /\ filenameNoExtCache' = ctx.filenameNoExtCache
    /\ program' = Append(program, node)
    /\ last' = [node |-> node,
                replacements |-> IF ctx.threw THEN <<>> ELSE ctx.nodes,
                threw |-> ctx.threw]
    /\ IF ctx.threw
       THEN /\ phase' = "failed"
            /\ body' = <<ClosureCall(Append(Contents, node))>>
       ELSE /\ phase' = "visiting"
            /\ body' = <<ClosureCall(ReplaceWithMultiple(Append(Contents, node),
                                                         Len(Contents) + 1,
                                                         ctx.nodes))>>
    /\ UNCHANGED <<filename, opts, reused, root>>

\* a statement that is no import/export construct: no visitor of the plugin
\* runs on it
OtherStatement ==
    /\ AtStatement
    /\ \E node \in {PlainStatement} :
          /\ program' = Append(program, node)
          /\ body' = <<ClosureCall(Append(Contents, node))>>
          /\ last' = [node |-> node, replacements |-> <<node>>, threw |-> FALSE]
    /\ UNCHANGED <<createdGlobals, filenameNoExtCache, filename, opts, phase, reused, root>>

----------------------------------------------------------------------------
(* The files, options and constructs the transforms are run on             *)

f_foo_bar_js     == Cwd \o <<SEP>> \o s_foo \o <<SEP>> \o s_bar \o <<DOT, "j", "s">>
f_foo_bar_soy_js == Cwd \o <<SEP>> \o s_foo \o <<SEP>> \o s_bar
                        \o <<DOT, "s", "o", "y", DOT, "j", "s">>

src_foo     == <<DOT, SEP>> \o s_foo                          \* './foo'
src_foo_soy == <<DOT, SEP>> \o s_foo \o <<DOT, "s", "o", "y">>  \* './foo.soy'
src_up_foo  == <<DOT, DOT, SEP>> \o s_qux \o <<SEP>> \o s_foo   \* '../qux/foo'

\* the i-th name used for bindings: foo, bar, baz, qux, foo, ...
NamePool == <<s_foo, s_bar, s_baz, s_qux>>
NameAt(i) == NamePool[((i - 1) % Len(NamePool)) + 1]

\* `{foo, bar, ...}`: the first k named import specifiers
NamedImports(k) == [i \in 1..k |-> ImportSpecifier(NameAt(i), NameAt(i))]

ImportSpecifierLists ==
    {NamedImports(k) : k \in 0..MaxSpecifiers}
      \cup {<<ImportDefaultSpecifier(s_foo)>>,
            <<ImportNamespaceSpecifier(s_foo)>>,
            <<ImportSpecifier(s_baz, s_bar)>>}

\* `{foo, bar as baz, baz, qux as foo, ...}`: even positions are renamed
ExportSpecifierAt(i) ==
    IF i % 2 = 1 THEN ExportSpecifier(NameAt(i), NameAt(i))
    ELSE ExportSpecifier(NameAt(i), NameAt(i + 1))

ExportSpecifiers(k) == [i \in 1..k |-> ExportSpecifierAt(i)]

\* `var foo, bar, ...`: the first k declarators
Declarators(k) == [i \in 1..k |-> [id |-> Identifier(NameAt(i)), init |-> <<>>]]

ImportNodes ==
    {ImportDeclarationNode(src_foo, l) : l \in ImportSpecifierLists}
      \cup {ImportDeclarationNode(src, l) :
               src \in {src_foo_soy, src_up_foo},
               l \in {<<ImportDefaultSpecifier(s_foo)>>, NamedImports(1)}}

ExportAllNodes == {ExportAllDeclarationNode(src_foo)}

ExportDefaultNodes ==
    {ExportDefaultDeclarationNode(Identifier(s_foo)),
     ExportDefaultDeclarationNode(FunctionDeclaration(s_foo))}

ExportNamedNodes ==
    {ExportNamedDeclarationNode(<<VariableDeclaration("var", Declarators(k))>>,
                                <<>>, <<>>) : k \in 1..MaxSpecifiers}
      \cup {ExportNamedDeclarationNode(<<FunctionDeclaration(s_foo)>>, <<>>, <<>>)}
      \cup {ExportNamedDeclarationNode(<<>>, ExportSpecifiers(k), <<>>) :
               k \in 0..MaxSpecifiers}
      \cup {ExportNamedDeclarationNode(<<>>, ExportSpecifiers(k),
                                       <<StringLiteral(src_foo)>>) :
               k \in 0..MaxSpecifiers}
      \cup {ExportNamedDeclarationNode(<<>>, ExportSpecifiers(1),
                                       <<StringLiteral(src_foo_soy)>>)}

Filenames == {f_foo_bar_js, f_foo_bar_soy_js, s_unknown}

Options ==
    {[globalName |-> StringGlobalName(s_myGlobal)],
     [globalName |-> FunctionGlobalName("TestExports")],
     [globalName |-> FunctionGlobalName("ByModule")]}

----------------------------------------------------------------------------
(* src/index.js: the plugin instance and the transforms run through it     *)

NoLast == [node |-> NoNode, replacements |-> <<>>, threw |-> FALSE]

Init ==
    /\ createdGlobals = {}
    /\ filenameNoExtCache = <<>>
    /\ filename = <<>>
    /\ opts = [globalName |-> StringGlobalName(<<>>)]
    /\ program = <<>>
    /\ body = <<>>
    /\ phase = "idle"
    /\ last = NoLast
    /\ reused = FALSE
    /\ root = {}

\* variant: the memo and the cache are kept from the file before
ProgramVisitor_NoReset(fname, o, contents) ==
    /\ filename' = fname
    /\ opts' = o
    /\ program' = contents
    /\ body' = <<ClosureCall(contents)>>
    /\ phase' = "visiting"
    /\ last' = NoLast
    /\ UNCHANGED <<createdGlobals, filenameNoExtCache, reused, root>>
\* Program visitor, entered first in the transform of a file: fname is the
\* file's filename, o the plugin options, contents the statement list
ProgramVisitor(fname, o, contents) ==
    /\ createdGlobals' = {}
    /\ filenameNoExtCache' = <<>>
    /\ filename' = fname
    /\ opts' = o
    /\ program' = contents
    /\ body' = <<ClosureCall(contents)>>
    /\ phase' = "visiting"
    /\ last' = NoLast
    /\ UNCHANGED <<reused, root>>

Program ==
    /\ phase = "idle"
    /\ \E fname \in Filenames, o \in Options :
          \* the file with two extensions is transformed with the string
          \* globalName, as in testExportWithMultipleExtensionsFilename
          /\ fname = f_foo_bar_soy_js => o.globalName.kind = "string"
          /\ ProgramVisitor(fname, o, <<>>)

ImportDeclaration ==
    /\ AtStatement
    /\ \E node \in ImportNodes :
       \E ctx \in {ImportDeclarationVisitor(State(filename, opts), node,
                       Context(createdGlobals, filenameNoExtCache))} :
           Visited(node, ctx)

ExportAllDeclaration ==
    /\ AtStatement
    /\ \E node \in ExportAllNodes :
       \E ctx \in {ExportAllDeclarationVisitor(State(filename, opts), node,
                       Context(createdGlobals, filenameNoExtCache))} :
           Visited(node, ctx)

ExportDefaultDeclaration ==
    /\ AtStatement
    /\ NoDefaultExportYet
    /\ \E node \in ExportDefaultNodes :
       \E ctx \in {ExportDefaultDeclarationVisitor(State(filename, opts), node,
                       Context(createdGlobals, filenameNoExtCache))} :
           Visited(node, ctx)

ExportNamedDeclaration ==
    /\ AtStatement
    /\ \E node \in ExportNamedNodes :
       \E ctx \in {ExportNamedDeclarationVisitor(State(filename, opts), node,
                       Context(createdGlobals, filenameNoExtCache))} :
           Visited(node, ctx)

\* the traversal has passed the last statement of the file
Finished == phase = "visiting"

\* babel.transform returns the generated code, or throws the visitor's
\* error; the plugin instance stays, with its memo as the file left it
TransformEnd ==
    /\ Finished \/ phase = "failed"
    /\ phase' = "idle"
    /\ filename' = <<>>
    /\ opts' = [globalName |-> StringGlobalName(<<>>)]
    /\ program' = <<>>
    /\ body' = <<>>
    /\ last' = NoLast
    /\ reused' = TRUE
    /\ UNCHANGED <<createdGlobals, filenameNoExtCache, root>>

Next ==
    \/ Program
    \/ OtherStatement
    \/ ImportDeclaration
    \/ ExportAllDeclaration
    \/ ExportDefaultDeclaration
    \/ ExportNamedDeclaration
    \/ TransformEnd

Spec == Init /\ [][Next]_vars

----------------------------------------------------------------------------
(* Root-relative variant (src/unnamed/part_000, lines 1-320).  Its         *)
(* assertFilenameRequired, getFilenameNoExt and removeExtensions are the   *)
(* same text as in src/index.js and are modelled by the same definitions.  *)
(* Here createdGlobals is a flat object: it is modelled by the set of its  *)
(* keys.                                                                   *)

s_undefined == <<"u","n","d","e","f","i","n","e","d">>
s_ExternalModule == <<"E","x","t","e","r","n","a","l","M","o","d","u","l","e">>
s_Chart == <<"C","h","a","r","t">>
src_external_module == <<"e","x","t","e","r","n","a","l","-","m","o","d","u","l","e">>
src_chart_js == <<"c","h","a","r","t",DOT,"j","s">>

\* id.name as a property key: an expression that is no Identifier has no
\* name, and the key is 'undefined'
RR_IdName(id) == IF id.type = "Identifier" THEN id.name ELSE s_undefined

\* state.opts.externals && state.opts.externals[filePath]
RR_IsExternalModule(state, filePath) ==
    /\ filePath \in DOMAIN state.opts.externals
    /\ state.opts.externals[filePath] # <<>>

RR_assignToGlobal(ctx, id, expression) ==
    IF RR_IdName(id) \in ctx.createdGlobals THEN ctx
    ELSE [ctx EXCEPT !.createdGlobals = @ \cup {RR_IdName(id)},
                     !.nodes = Append(@, ExpressionStatement(
                                             AssignmentExpression(id, expression)))]

\* returns [threw, value]
RR_getRootRelativePath(state, filePath) ==
    IF ~assertFilenameRequired(state.file.opts.filename)
    THEN [threw |-> TRUE, value |-> <<>>]
    ELSE [threw |-> FALSE,
          value |-> path_relative(Cwd,
                        path_resolve(path_dirname(state.file.opts.filename),
                                     filePath))]

\* returns [threw, id]
RR_buildModuleIdentifier(state, filePath, name) ==
    LET relativePath == RR_getRootRelativePath(state, filePath)
        splitPath == Split(relativePath.value, SEP)
        idSegments == <<s_this, state.opts.globalName>> \o splitPath
                        \o (IF name # <<>> THEN <<name>> ELSE <<>>)
    IN IF relativePath.threw THEN [threw |-> TRUE, id |-> NoNode]
       ELSE [threw |-> FALSE, id |-> Identifier(Join(idSegments, DOT))]

\* this.<moduleName>["default"] || this.<moduleName>
RR_buildExternalIdentifier(moduleName) ==
    LET baseExpr == MemberExpression(ThisExpression, Identifier(moduleName), FALSE)
        defaultPropExpr == MemberExpression(baseExpr, StringLiteral(s_default), TRUE)
    IN LogicalExpression("||", defaultPropExpr, baseExpr)

\* the reduce over the directory levels: refs so far, parentRef the last
\* of them (base at the start)
RECURSIVE RR_ReferencesLoop(_, _, _, _)
RR_ReferencesLoop(namespacePaths, i, parentRef, refs) ==
    IF i > Len(namespacePaths) THEN refs
    ELSE LET ref == [id |-> parentRef.id \o <<DOT>> \o namespacePaths[i],
                     expr |-> MemberExpression(parentRef.expr,
                                               Identifier(namespacePaths[i]), FALSE)]
         IN RR_ReferencesLoop(namespacePaths, i + 1, ref, Append(refs, ref))

\* the statement `<ref> = <ref> || {}` per directory level, as [id, expr]
RR_buildNamespaceReferences(modulePath, globalName) ==
    LET split == Split(modulePath, SEP)
        namespacePaths == SubSeq(split, 1, Len(split) - 1)
        base == [id |-> s_this \o <<DOT>> \o globalName,
                 expr |-> MemberExpression(ThisExpression, Identifier(globalName),
                                           FALSE)]
        references == RR_ReferencesLoop(namespacePaths, 1, base, <<>>)
    IN [i \in 1..Len(references) |->
           [id |-> references[i].id,
            expr |-> AssignmentExpression(
                         references[i].expr,
                         LogicalExpression("||", references[i].expr,
                                           ObjectExpression))]]

\* refs.filter: the refs whose id is no key of createdGlobals yet, in order
RECURSIVE RR_UncreatedRefs(_, _)
RR_UncreatedRefs(refs, created) ==
    IF refs = <<>> THEN <<>>
    ELSE IF Head(refs).id \notin created
         THEN <<Head(refs)>> \o RR_UncreatedRefs(Tail(refs), created)
         ELSE RR_UncreatedRefs(Tail(refs), created)

RR_addNamespaceExpressions(state, filePath, ctx) ==
    LET relativePath == RR_getRootRelativePath(state, filePath)
        refs == RR_buildNamespaceReferences(relativePath.value, state.opts.globalName)
        uncreatedRefs == RR_UncreatedRefs(refs, ctx.createdGlobals)
        statements == [i \in 1..Len(uncreatedRefs) |->
                          ExpressionStatement(uncreatedRefs[i].expr)]
    IN IF relativePath.threw THEN [ctx EXCEPT !.threw = TRUE]
       ELSE [ctx EXCEPT
                !.createdGlobals = @ \cup {uncreatedRefs[i].id :
                                              i \in 1..Len(uncreatedRefs)},
                !.nodes = @ \o statements]

\* returns [threw, id]
RR_getGlobalIdentifier(state, filePath, name, opt_isWildcard) ==
    IF RR_IsExternalModule(state, filePath)
    THEN [threw |-> FALSE,
          id |-> RR_buildExternalIdentifier(state.opts.externals[filePath])]
    ELSE RR_buildModuleIdentifier(state, filePath, name)

RR_assignDeclarationToGlobal(state, ctx, declaration) ==
    IF ctx.threw THEN ctx
    ELSE LET noExt == getFilenameNoExt(ctx.filenameNoExtCache, state.file.opts.filename)
             got   == RR_getGlobalIdentifier(state, noExt.value, declaration.id.name,
                                             FALSE)
         IN IF noExt.threw THEN [ctx EXCEPT !.threw = TRUE]
            ELSE IF got.threw
                 THEN [ctx EXCEPT !.threw = TRUE, !.filenameNoExtCache = noExt.cache]
            ELSE RR_assignToGlobal([ctx EXCEPT !.filenameNoExtCache = noExt.cache],
                                   got.id, declaration.id)

RECURSIVE RR_ImportSpecifiersLoop(_, _, _, _)
RR_ImportSpecifiersLoop(state, node, i, ctx) ==
    IF i > Len(node.specifiers) \/ ctx.threw THEN ctx
    ELSE LET specifier == node.specifiers[i]
             got == RR_getGlobalIdentifier(
                        state,
                        removeExtensions(node.source.value),
                        ImportedName(specifier),
                        specifier.type = "ImportNamespaceSpecifier")
         IN IF got.threw THEN [ctx EXCEPT !.threw = TRUE]
            ELSE RR_ImportSpecifiersLoop(state, node, i + 1,
                     [ctx EXCEPT !.nodes = Append(@,
                         VariableDeclaration("var",
                             <<VariableDeclarator(specifier.local, got.id)>>))])

\* variant: the loop over the specifiers starts at the second one
RR_ImportDeclarationVisitor_SkipFirst(state, node, ctx) ==
    RR_ImportSpecifiersLoop(state, node, 2, ctx)
RR_ImportDeclarationVisitor(state, node, ctx) ==
    RR_ImportSpecifiersLoop(state, node, 1, ctx)

RR_ExportAllDeclarationVisitor(state, node, ctx) == ctx

RR_ExportDefaultDeclarationVisitor(state, node, ctx) ==
    LET noExt == getFilenameNoExt(ctx.filenameNoExtCache, state.file.opts.filename)
        cached == [ctx EXCEPT !.filenameNoExtCache = noExt.cache]
        spaced == RR_addNamespaceExpressions(state, noExt.value, cached)
        got == RR_getGlobalIdentifier(state, noExt.value, NoName, FALSE)
    IN IF noExt.threw THEN [ctx EXCEPT !.threw = TRUE]
       ELSE IF spaced.threw THEN spaced
       ELSE IF got.threw THEN [spaced EXCEPT !.threw = TRUE]
       ELSE RR_assignToGlobal(spaced, got.id, node.declaration)

RECURSIVE RR_DeclarationsLoop(_, _, _, _)
RR_DeclarationsLoop(state, declarations, i, ctx) ==
    IF i > Len(declarations) \/ ctx.threw THEN ctx
    ELSE RR_DeclarationsLoop(state, declarations, i + 1,
             RR_assignDeclarationToGlobal(state, ctx, declarations[i]))

\* one turn of node.specifiers.forEach in ExportNamedDeclaration
RR_ExportSpecifierStep(state, node, fileName, specifier, ctx) ==
    LET fromSource == IF node.source # <<>>
                      THEN RR_getGlobalIdentifier(state, node.source[1].value,
                                                  specifier.local.name, FALSE)
                      ELSE [threw |-> FALSE, id |-> specifier.exported]
        got == RR_getGlobalIdentifier(state, fileName, specifier.exported.name, FALSE)
    IN IF fromSource.threw \/ got.threw THEN [ctx EXCEPT !.threw = TRUE]
       ELSE RR_assignToGlobal(ctx, got.id, fromSource.id)

RECURSIVE RR_ExportSpecifiersLoop(_, _, _, _, _)
RR_ExportSpecifiersLoop(state, node, fileName, i, ctx) ==
    IF i > Len(node.specifiers) \/ ctx.threw THEN ctx
    ELSE RR_ExportSpecifiersLoop(state, node, fileName, i + 1,
             RR_ExportSpecifierStep(state, node, fileName, node.specifiers[i], ctx))

RR_ExportNamedDeclarationVisitor(state, node, ctx) ==
    LET noExt == getFilenameNoExt(ctx.filenameNoExtCache, state.file.opts.filename)
        cached == [ctx EXCEPT !.filenameNoExtCache = noExt.cache]
        pushed == IF node.declaration # <<>>
                  THEN [cached EXCEPT !.nodes = Append(@, node.declaration[1])]
                  ELSE cached
        spaced == RR_addNamespaceExpressions(state, noExt.value, pushed)
        got == RR_getGlobalIdentifier(state, noExt.value, NoName, FALSE)
        opened == RR_assignToGlobal(spaced, got.id, ObjectExpression)
    IN IF noExt.threw THEN [ctx EXCEPT !.threw = TRUE]
       ELSE IF spaced.threw THEN spaced
       ELSE IF got.threw THEN [spaced EXCEPT !.threw = TRUE]
       ELSE IF node.declaration # <<>>
            THEN IF node.declaration[1].type = "VariableDeclaration"
                 THEN RR_DeclarationsLoop(state, node.declaration[1].declarations, 1,
                                          opened)
                 ELSE RR_assignDeclarationToGlobal(state, opened, node.declaration[1])
       ELSE RR_ExportSpecifiersLoop(state, node, noExt.value, 1, opened)

----------------------------------------------------------------------------
(* Root-relative variant: the files, options and constructs                *)

f_bar_js         == Cwd \o <<SEP>> \o s_bar \o <<DOT, "j", "s">>
f_foo_bar_baz_js == Cwd \o <<SEP>> \o s_foo \o <<SEP>> \o s_bar \o <<SEP>> \o s_baz
                        \o <<DOT, "j", "s">>

src_sub_foo_js == <<DOT, SEP, "s", "u", "b", SEP>> \o s_foo \o <<DOT, "j", "s">>

\* externals: {'external-module': 'ExternalModule', 'chart.js': 'Chart'}
RR_Externals ==
    [k \in {src_external_module, src_chart_js} |->
        IF k = src_external_module THEN s_ExternalModule ELSE s_Chart]

RR_Filenames == {f_foo_bar_js, f_bar_js, f_foo_bar_baz_js, s_unknown}

RR_Options ==
    {[globalName |-> s_myGlobal, externals |-> RR_Externals,
      transformOnlyModules |-> b] : b \in BOOLEAN}

RR_ImportNodes ==
    {ImportDeclarationNode(src_foo, l) : l \in ImportSpecifierLists}
      \cup {ImportDeclarationNode(src, <<ImportDefaultSpecifier(s_foo)>>) :
               src \in {src_external_module, src_chart_js, src_foo_soy,
                        src_sub_foo_js}}
      \cup {ImportDeclarationNode(src_external_module, NamedImports(MaxSpecifiers))}

RR_ExportNamedNodes ==
    {ExportNamedDeclarationNode(<<VariableDeclaration("var",
                                                      Declarators(MaxSpecifiers))>>,
                                <<>>, <<>>),
     ExportNamedDeclarationNode(<<FunctionDeclaration(s_foo)>>, <<>>, <<>>),
     ExportNamedDeclarationNode(<<>>, ExportSpecifiers(1),
                                <<StringLiteral(src_foo)>>)}
      \cup {ExportNamedDeclarationNode(<<>>, ExportSpecifiers(k), <<>>) :
               k \in 0..MaxSpecifiers}

----------------------------------------------------------------------------
(* Root-relative variant: the plugin instance and its transforms           *)

RR_Program ==
    /\ phase = "idle"
    /\ \E fname \in RR_Filenames, o \in RR_Options : ProgramVisitor(fname, o, <<>>)

RR_ImportDeclaration ==
    /\ AtStatement
    /\ \E node \in RR_ImportNodes :
       \E ctx \in {RR_ImportDeclarationVisitor(State(filename, opts), node,
                       Context(createdGlobals, filenameNoExtCache))} :
           Visited(node, ctx)

RR_ExportAllDeclaration ==
    /\ AtStatement
    /\ \E node \in ExportAllNodes :
       \E ctx \in {RR_ExportAllDeclarationVisitor(State(filename, opts), node,
                       Context(createdGlobals, filenameNoExtCache))} :
           Visited(node, ctx)

RR_ExportDefaultDeclaration ==
    /\ AtStatement
    /\ NoDefaultExportYet
    /\ NoDefaultExportYet
    /\ \E node \in ExportDefaultNodes :
       \E ctx \in {RR_ExportDefaultDeclarationVisitor(State(filename, opts), node,
                       Context(createdGlobals, filenameNoExtCache))} :
           Visited(node, ctx)

RR_ExportNamedDeclaration ==
    /\ AtStatement
    /\ \E node \in RR_ExportNamedNodes :
       \E ctx \in {RR_ExportNamedDeclarationVisitor(State(filename, opts), node,
                       Context(createdGlobals, filenameNoExtCache))} :
           Visited(node, ctx)

RR_Next ==
    \/ RR_Program
    \/ OtherStatement
    \/ RR_ImportDeclaration
    \/ RR_ExportAllDeclaration
    \/ RR_ExportDefaultDeclaration
    \/ RR_ExportNamedDeclaration
    \/ TransformEnd

SpecRR == Init /\ [][RR_Next]_vars

----------------------------------------------------------------------------
(* Babel-5 variant (src/unnamed/part_000, lines 322-507), prefix B5_.  Its *)
(* assertFilenameRequired, createGlobal and assignToGlobal have the same   *)
(* text as in src/index.js and are modelled by the same definitions.  The  *)
(* visitors read this.state.opts, the babel options with the plugin's      *)
(* _globalName among them.                                                 *)

\* this.state.opts
B5_StateOpts(fname, o) == [filename |-> fname, _globalName |-> o._globalName]

\* returns [threw, cache, value]
B5_getFilenameNoExt(cache, fname) ==
    IF CacheIsFalsy(cache)
    THEN IF ~assertFilenameRequired(fname)
         THEN [threw |-> TRUE, cache |-> cache, value |-> <<>>]
         ELSE LET noExt == SubSeq(fname, 1, Len(fname) - 3)
              IN [threw |-> FALSE, cache |-> <<noExt>>, value |-> noExt]
    ELSE [threw |-> FALSE, cache |-> cache, value |-> cache[1]]

\* returns [threw, id]
B5_getGlobalIdentifier(options, filePath, name, isWildcard) ==
    LET globalName == IF name # <<>> \/ isWildcard
                      THEN options._globalName \o s_Named
                      ELSE options._globalName
        resolved   == path_resolve(path_dirname(options.filename), filePath)
        splitPath  == Split(resolved, SEP)
        moduleName == splitPath[Len(splitPath)]
    IN IF ~assertFilenameRequired(options.filename)
       THEN [threw |-> TRUE, id |-> NoNode]
       ELSE [threw |-> FALSE,
             id |-> Identifier(s_this \o <<DOT>> \o globalName \o <<DOT>> \o moduleName
                      \o (IF name # <<>> THEN <<DOT>> \o name ELSE <<>>))]

RECURSIVE B5_ImportSpecifiersLoop(_, _, _, _)
B5_ImportSpecifiersLoop(options, node, i, ctx) ==
    IF i > Len(node.specifiers) \/ ctx.threw THEN ctx
    ELSE LET specifier == node.specifiers[i]
             got == B5_getGlobalIdentifier(
                        options,
                        node.source.value,
                        ImportedName(specifier),
                        specifier.type = "ImportNamespaceSpecifier")
         IN IF got.threw THEN [ctx EXCEPT !.threw = TRUE]
            ELSE B5_ImportSpecifiersLoop(options, node, i + 1,
                     [ctx EXCEPT !.nodes = Append(@,
                         VariableDeclaration("var",
                             <<VariableDeclarator(specifier.local, got.id)>>))])

B5_ImportDeclarationVisitor(options, node, ctx) ==
    B5_ImportSpecifiersLoop(options, node, 1, ctx)

B5_ExportAllDeclarationVisitor(options, node, ctx) == ctx

B5_ExportDefaultDeclarationVisitor(options, node, ctx) ==
    LET noExt == B5_getFilenameNoExt(ctx.filenameNoExtCache, options.filename)
        got   == B5_getGlobalIdentifier(options, noExt.value, NoName, FALSE)
    IN IF noExt.threw THEN [ctx EXCEPT !.threw = TRUE]
       ELSE IF got.threw
            THEN [ctx EXCEPT !.threw = TRUE, !.filenameNoExtCache = noExt.cache]
       ELSE assignToGlobal([ctx EXCEPT !.filenameNoExtCache = noExt.cache],
                           got.id, node.declaration)

\* one export of the binding `local` under the name of id `exported`;
\* idToAssign is the value assigned
B5_AssignExport(options, filenameNoExt, exportedName, idToAssign, ctx) ==
    LET got == B5_getGlobalIdentifier(options, filenameNoExt, exportedName, FALSE)
    IN IF got.threw THEN [ctx EXCEPT !.threw = TRUE]
       ELSE assignToGlobal(ctx, got.id, idToAssign)

RECURSIVE B5_DeclarationsLoop(_, _, _, _, _)
B5_DeclarationsLoop(options, filenameNoExt, declarations, i, ctx) ==
    IF i > Len(declarations) \/ ctx.threw THEN ctx
    ELSE B5_DeclarationsLoop(options, filenameNoExt, declarations, i + 1,
             B5_AssignExport(options, filenameNoExt, declarations[i].id.name,
                             declarations[i].id, ctx))

RECURSIVE B5_ExportSpecifiersLoop(_, _, _, _, _)
B5_ExportSpecifiersLoop(options, filenameNoExt, node, i, ctx) ==
    IF i > Len(node.specifiers) \/ ctx.threw THEN ctx
    ELSE LET specifier == node.specifiers[i]
             fromSource == IF node.source # <<>>
                           THEN B5_getGlobalIdentifier(options, node.source[1].value,
                                                       specifier.local.name, FALSE)
                           ELSE [threw |-> FALSE, id |-> specifier.exported]
         IN IF fromSource.threw THEN [ctx EXCEPT !.threw = TRUE]
            ELSE B5_ExportSpecifiersLoop(options, filenameNoExt, node, i + 1,
                     B5_AssignExport(options, filenameNoExt, specifier.exported.name,
                                     fromSource.id, ctx))

B5_ExportNamedDeclarationVisitor(options, node, ctx) ==
    LET noExt == B5_getFilenameNoExt(ctx.filenameNoExtCache, options.filename)
        cached == [ctx EXCEPT !.filenameNoExtCache = noExt.cache]
    IN IF noExt.threw THEN [ctx EXCEPT !.threw = TRUE]
       ELSE IF node.declaration # <<>>
       THEN LET declaration == node.declaration[1]
                pushed == [cached EXCEPT !.nodes = Append(@, declaration)]
            IN IF declaration.type = "VariableDeclaration"
               THEN B5_DeclarationsLoop(options, noExt.value,
                                        declaration.declarations, 1, pushed)
               ELSE B5_AssignExport(options, noExt.value, declaration.id.name,
                                    declaration.id, pushed)
       ELSE B5_ExportSpecifiersLoop(options, noExt.value, node, 1, cached)

----------------------------------------------------------------------------
(* Babel-5 variant: the transformer instance and its transforms            *)

B5_Filenames == {f_foo_bar_js, f_foo_bar_baz_js, s_unknown}

B5_Options == {[_globalName |-> s_myGlobal]}

B5_ImportNodes ==
    {ImportDeclarationNode(src_foo, l) : l \in ImportSpecifierLists}

B5_ExportNamedNodes ==
    {ExportNamedDeclarationNode(<<VariableDeclaration("var",
                                                      Declarators(MaxSpecifiers))>>,
                                <<>>, <<>>),
     ExportNamedDeclarationNode(<<FunctionDeclaration(s_foo)>>, <<>>, <<>>),
     ExportNamedDeclarationNode(<<>>, ExportSpecifiers(1),
                                <<StringLiteral(src_foo)>>)}
      \cup {ExportNamedDeclarationNode(<<>>, ExportSpecifiers(k), <<>>) :
               k \in 0..MaxSpecifiers}

\* Program visitor: wraps the body; createdGlobals and filenameNoExtCache
\* are not assigned
B5_ProgramVisitor(fname, o, contents) ==
    /\ filename' = fname
    /\ opts' = o
    /\ program' = contents
    /\ body' = <<ClosureCall(contents)>>
    /\ phase' = "visiting"
    /\ last' = NoLast
    /\ UNCHANGED <<createdGlobals, filenameNoExtCache, reused, root>>

B5_Program ==
    /\ phase = "idle"
    /\ \E fname \in B5_Filenames, o \in B5_Options : B5_ProgramVisitor(fname, o, <<>>)

B5_ImportDeclaration ==
    /\ AtStatement
    /\ \E node \in B5_ImportNodes :
       \E ctx \in {B5_ImportDeclarationVisitor(B5_StateOpts(filename, opts), node,
                       Context(createdGlobals, filenameNoExtCache))} :
           Visited(node, ctx)

B5_ExportAllDeclaration ==
    /\ AtStatement
    /\ \E node \in ExportAllNodes :
       \E ctx \in {B5_ExportAllDeclarationVisitor(B5_StateOpts(filename, opts), node,
                       Context(createdGlobals, filenameNoExtCache))} :
           Visited(node, ctx)

B5_ExportDefaultDeclaration ==
    /\ AtStatement
    /\ NoDefaultExportYet
    /\ \E node \in ExportDefaultNodes :
       \E ctx \in {B5_ExportDefaultDeclarationVisitor(B5_StateOpts(filename, opts),
                       node, Context(createdGlobals, filenameNoExtCache))} :
           Visited(node, ctx)

B5_ExportNamedDeclaration ==
    /\ AtStatement
    /\ \E node \in B5_ExportNamedNodes :
       \E ctx \in {B5_ExportNamedDeclarationVisitor(B5_StateOpts(filename, opts),
                       node, Context(createdGlobals, filenameNoExtCache))} :
           Visited(node, ctx)

B5_Next ==
    \/ B5_Program
    \/ OtherStatement
    \/ B5_ImportDeclaration
    \/ B5_ExportAllDeclaration
    \/ B5_ExportDefaultDeclaration
    \/ B5_ExportNamedDeclaration
    \/ TransformEnd

SpecB5 == Init /\ [][B5_Next]_vars

----------------------------------------------------------------------------
(* Key-copy variant (src/unnamed/part_000, lines 509-776), prefix KC_.     *)
(* Its assertFilenameRequired, getFilenameNoExt, removeExtensions and      *)
(* Program have the same text as in src/index.js and are modelled by the   *)
(* same definitions.  createdGlobals is a flat object here, modelled by    *)
(* the set of its keys.                                                    *)

s_true   == <<"t","r","u","e">>
s_Object == <<"O","b","j","e","c","t">>
s_keys   == <<"k","e","y","s">>
s_forEach == <<"f","o","r","E","a","c","h">>
s_key    == <<"k","e","y">>

\* the value true passed for name (ExportAllDeclaration)
NameTrue == <<"true">>

\* name as string concatenation renders it
NameString(name) == IF name = NameTrue THEN s_true ELSE name

\* the loop `expr = t.memberExpression(expr, t.stringLiteral(parts[i]), true)`
RECURSIVE KC_PartsLoop(_, _, _)
KC_PartsLoop(parts, i, expr) ==
    IF i > Len(parts) THEN expr
    ELSE KC_PartsLoop(parts, i + 1,
                      MemberExpression(expr, StringLiteral(parts[i]), TRUE))

\* returns [threw, expr]
KC_getGlobalExpression(state, filePath, name, opt_isWildcard) ==
    LET globalName == IF name # <<>> \/ opt_isWildcard
                      THEN state.opts.globalName.value \o s_Named
                      ELSE state.opts.globalName.value
        resolved   == path_resolve(path_dirname(state.file.opts.filename), filePath)
        splitPath  == Split(resolved, SEP)
        moduleName == splitPath[Len(splitPath)]
        id == IF state.opts.globalName.kind = "function"
              THEN CallGlobalName(state.opts.globalName.fn, state, filePath,
                                  NameString(name), opt_isWildcard)
              ELSE s_this \o <<DOT>> \o globalName \o <<DOT>> \o moduleName
                     \o (IF name # <<>> /\ name # NameTrue
                         THEN <<DOT>> \o name ELSE <<>>)
        parts == Split(id, DOT)
    IN IF ~assertFilenameRequired(state.file.opts.filename)
       THEN [threw |-> TRUE, expr |-> NoNode]
       ELSE [threw |-> FALSE, expr |-> KC_PartsLoop(parts, 2, Identifier(parts[1]))]

\* exprs: expr and the objects below it as long as they are member
\* expressions, outermost first
RECURSIVE KC_MemberExpressions(_)
KC_MemberExpressions(expr) ==
    IF expr.type = "MemberExpression"
    THEN <<expr>> \o KC_MemberExpressions(expr.object)
    ELSE <<>>

\* <expr> = <expr> || {}
KC_CreateGlobalStatement(expr) ==
    ExpressionStatement(
        AssignmentExpression(expr, LogicalExpression("||", expr, ObjectExpression)))

\* the loop over exprs[i], i counting down to lowest (1-based)
RECURSIVE KC_createGlobalLoop(_, _, _, _, _, _)
KC_createGlobalLoop(exprs, i, lowest, currGlobalName, created, nodes) ==
    IF i < lowest THEN [createdGlobals |-> created, nodes |-> nodes]
    ELSE LET nextName == currGlobalName \o <<DOT>> \o exprs[i].property.value
         IN IF nextName \notin created
            THEN KC_createGlobalLoop(exprs, i - 1, lowest, nextName,
                                     created \cup {nextName},
                                     Append(nodes, KC_CreateGlobalStatement(exprs[i])))
            ELSE KC_createGlobalLoop(exprs, i - 1, lowest, nextName, created, nodes)

\* returns [createdGlobals, nodes]
KC_createGlobal(created, expr, nodes, opt_namedPartial) ==
    LET exprs == KC_MemberExpressions(expr)
    IN KC_createGlobalLoop(exprs, Len(exprs) - 1,
                           IF opt_namedPartial THEN 1 ELSE 2, <<>>, created, nodes)

\* t.isExpression
KC_IsExpression(node) == node.type \notin {"FunctionDeclaration", "ClassDeclaration"}

\* t.toExpression: a function or class declaration as an expression
KC_toExpression(node) ==
    IF node.type = "FunctionDeclaration" THEN [node EXCEPT !.type = "FunctionExpression"]
    ELSE IF node.type = "ClassDeclaration" THEN [node EXCEPT !.type = "ClassExpression"]
    ELSE node

KC_assignToGlobal(ctx, expr, expression) ==
    LET made == KC_createGlobal(ctx.createdGlobals, expr, ctx.nodes, FALSE)
        value == IF KC_IsExpression(expression) THEN expression
                 ELSE KC_toExpression(expression)
    IN [ctx EXCEPT !.createdGlobals = made.createdGlobals,
                   !.nodes = Append(made.nodes,
                                    ExpressionStatement(
                                        AssignmentExpression(expr, value)))]

KC_assignDeclarationToGlobal(state, ctx, declaration) ==
    IF ctx.threw THEN ctx
    ELSE LET noExt == getFilenameNoExt(ctx.filenameNoExtCache, state.file.opts.filename)
             got   == KC_getGlobalExpression(state, noExt.value, declaration.id.name,
                                             FALSE)
         IN IF noExt.threw THEN [ctx EXCEPT !.threw = TRUE]
            ELSE IF got.threw
                 THEN [ctx EXCEPT !.threw = TRUE, !.filenameNoExtCache = noExt.cache]
            ELSE KC_assignToGlobal([ctx EXCEPT !.filenameNoExtCache = noExt.cache],
                                   got.expr, declaration.id)

RECURSIVE KC_ImportSpecifiersLoop(_, _, _, _)
KC_ImportSpecifiersLoop(state, node, i, ctx) ==
    IF i > Len(node.specifiers) \/ ctx.threw THEN ctx
    ELSE LET specifier == node.specifiers[i]
             got == KC_getGlobalExpression(
                        state,
                        removeExtensions(node.source.value),
                        ImportedName(specifier),
                        specifier.type = "ImportNamespaceSpecifier")
         IN IF got.threw THEN [ctx EXCEPT !.threw = TRUE]
            ELSE KC_ImportSpecifiersLoop(state, node, i + 1,
                     [ctx EXCEPT !.nodes = Append(@,
                         VariableDeclaration("var",
                             <<VariableDeclarator(specifier.local, got.expr)>>))])

KC_ImportDeclarationVisitor(state, node, ctx) ==
    KC_ImportSpecifiersLoop(state, node, 1, ctx)

\* Object.keys(<originalGlobal>).forEach(function (key) {
\*   <expr>[key] = <originalGlobal>[key]; });
KC_KeyCopyStatement(expr, originalGlobal) ==
    ExpressionStatement(
        [type |-> "CallExpression",
         callee |-> MemberExpression(
             [type |-> "CallExpression",
              callee |-> MemberExpression(Identifier(s_Object), Identifier(s_keys),
                                          FALSE),
              arguments |-> <<originalGlobal>>],
             Identifier(s_forEach), FALSE),
         arguments |->
             <<[type |-> "FunctionExpression", id |-> <<>>,
                params |-> <<Identifier(s_key)>>,
                body |-> [type |-> "BlockStatement",
                          body |-> <<ExpressionStatement(
                              AssignmentExpression(
                                  MemberExpression(expr, Identifier(s_key), TRUE),
                                  MemberExpression(originalGlobal, Identifier(s_key),
                                                   TRUE)))>>]]>>])

KC_ExportAllDeclarationVisitor(state, node, ctx) ==
    LET noExt == getFilenameNoExt(ctx.filenameNoExtCache, state.file.opts.filename)
        got   == KC_getGlobalExpression(state, noExt.value, NameTrue, FALSE)
        made  == KC_createGlobal(ctx.createdGlobals, got.expr, ctx.nodes, TRUE)
        originalGlobal == KC_getGlobalExpression(state, node.source.value, NameTrue,
                                                 FALSE)
    IN IF noExt.threw THEN [ctx EXCEPT !.threw = TRUE]
       ELSE IF got.threw \/ originalGlobal.threw
            THEN [ctx EXCEPT !.threw = TRUE, !.filenameNoExtCache = noExt.cache]
       ELSE [ctx EXCEPT !.filenameNoExtCache = noExt.cache,
                        !.createdGlobals = made.createdGlobals,
                        !.nodes = Append(made.nodes,
                                         KC_KeyCopyStatement(got.expr,
                                                             originalGlobal.expr))]

\* expression.id && (t.isFunctionDeclaration(expression) ||
\*                   t.isClassDeclaration(expression))
KC_IsNamedDeclaration(expression) ==
    /\ expression.type \in {"FunctionDeclaration", "ClassDeclaration"}
    /\ expression.id # NoNode

\* variant: a named declaration is not hoisted
KC_ExportDefaultDeclarationVisitor_NotHoisted(state, node, ctx) ==
    LET noExt == getFilenameNoExt(ctx.filenameNoExtCache, state.file.opts.filename)
        got   == KC_getGlobalExpression(state, noExt.value, NoName, FALSE)
    IN IF noExt.threw THEN [ctx EXCEPT !.threw = TRUE]
       ELSE IF got.threw
            THEN [ctx EXCEPT !.threw = TRUE, !.filenameNoExtCache = noExt.cache]
       ELSE KC_assignToGlobal([ctx EXCEPT !.filenameNoExtCache = noExt.cache],
                              got.expr, node.declaration)
KC_ExportDefaultDeclarationVisitor(state, node, ctx) ==
    LET noExt == getFilenameNoExt(ctx.filenameNoExtCache, state.file.opts.filename)
        got   == KC_getGlobalExpression(state, noExt.value, NoName, FALSE)
        named == KC_IsNamedDeclaration(node.declaration)
        cached == [ctx EXCEPT !.filenameNoExtCache = noExt.cache]
    IN IF noExt.threw THEN [ctx EXCEPT !.threw = TRUE]
       ELSE IF got.threw THEN [cached EXCEPT !.threw = TRUE]
       ELSE IF named
            THEN KC_assignToGlobal([cached EXCEPT !.nodes = Append(@, node.declaration)],
                                   got.expr, node.declaration.id)
       ELSE KC_assignToGlobal(cached, got.expr, node.declaration)

RECURSIVE KC_DeclarationsLoop(_, _, _, _)
KC_DeclarationsLoop(state, declarations, i, ctx) ==
    IF i > Len(declarations) \/ ctx.threw THEN ctx
    ELSE KC_DeclarationsLoop(state, declarations, i + 1,
                             KC_assignDeclarationToGlobal(state, ctx, declarations[i]))

KC_ExportSpecifierStep(state, node, specifier, ctx) ==
    LET fromSource == IF node.source # <<>>
                      THEN KC_getGlobalExpression(state, node.source[1].value,
                                                  specifier.local.name, FALSE)
                      ELSE [threw |-> FALSE, expr |-> specifier.local]
        exprToAssign == fromSource.expr
        noExt == getFilenameNoExt(ctx.filenameNoExtCache, state.file.opts.filename)
        got   == KC_getGlobalExpression(state, noExt.value, specifier.exported.name,
                                        FALSE)
    IN IF fromSource.threw \/ noExt.threw THEN [ctx EXCEPT !.threw = TRUE]
       ELSE IF got.threw
            THEN [ctx EXCEPT !.threw = TRUE, !.filenameNoExtCache = noExt.cache]
       ELSE KC_assignToGlobal([ctx EXCEPT !.filenameNoExtCache = noExt.cache],
                              got.expr, exprToAssign)

RECURSIVE KC_ExportSpecifiersLoop(_, _, _, _)
KC_ExportSpecifiersLoop(state, node, i, ctx) ==
    IF i > Len(node.specifiers) \/ ctx.threw THEN ctx
    ELSE KC_ExportSpecifiersLoop(state, node, i + 1,
             KC_ExportSpecifierStep(state, node, node.specifiers[i], ctx))

KC_ExportNamedDeclarationVisitor(state, node, ctx) ==
    IF node.declaration # <<>>
    THEN LET declaration == node.declaration[1]
             pushed == [ctx EXCEPT !.nodes = Append(@, declaration)]
         IN IF declaration.type = "VariableDeclaration"
            THEN KC_DeclarationsLoop(state, declaration.declarations, 1, pushed)
            ELSE KC_assignDeclarationToGlobal(state, pushed, declaration)
    ELSE KC_ExportSpecifiersLoop(state, node, 1, ctx)

----------------------------------------------------------------------------
(* Key-copy variant: the plugin instance and its transforms                *)

KC_Filenames == {f_foo_bar_js, s_unknown}

KC_Options ==
    {[globalName |-> StringGlobalName(s_myGlobal)],
     [globalName |-> FunctionGlobalName("TestExports")]}

\* export default foo / "foo" / function foo() {} / class Foo {} /
\* function () {}
KC_ExportDefaultNodes ==
    {ExportDefaultDeclarationNode(Identifier(s_foo)),
     ExportDefaultDeclarationNode(StringLiteral(s_foo)),
     ExportDefaultDeclarationNode(FunctionDeclaration(s_foo)),
     ExportDefaultDeclarationNode(ClassDeclaration(s_Foo)),
     ExportDefaultDeclarationNode([type |-> "FunctionDeclaration", id |-> NoNode])}

KC_ImportNodes ==
    {ImportDeclarationNode(src_foo, l) : l \in ImportSpecifierLists}

KC_Program ==
    /\ phase = "idle"
    /\ \E fname \in KC_Filenames, o \in KC_Options : ProgramVisitor(fname, o, <<>>)

KC_ImportDeclaration ==
    /\ AtStatement
    /\ \E node \in KC_ImportNodes :
       \E ctx \in {KC_ImportDeclarationVisitor(State(filename, opts), node,
                       Context(createdGlobals, filenameNoExtCache))} :
           Visited(node, ctx)

KC_ExportAllDeclaration ==
    /\ AtStatement
    /\ \E node \in ExportAllNodes :
       \E ctx \in {KC_ExportAllDeclarationVisitor(State(filename, opts), node,
                       Context(createdGlobals, filenameNoExtCache))} :
           Visited(node, ctx)

KC_ExportDefaultDeclaration ==
    /\ AtStatement
    /\ NoDefaultExportYet
    /\ \E node \in KC_ExportDefaultNodes :
       \E ctx \in {KC_ExportDefaultDeclarationVisitor(State(filename, opts), node,
                       Context(createdGlobals, filenameNoExtCache))} :
           Visited(node, ctx)

KC_ExportNamedDeclaration ==
    /\ AtStatement
    /\ \E node \in B5_ExportNamedNodes :
       \E ctx \in {KC_ExportNamedDeclarationVisitor(State(filename, opts), node,
                       Context(createdGlobals, filenameNoExtCache))} :
           Visited(node, ctx)

KC_Next ==
    \/ KC_Program
    \/ OtherStatement
    \/ KC_ImportDeclaration
    \/ KC_ExportAllDeclaration
    \/ KC_ExportDefaultDeclaration
    \/ KC_ExportNamedDeclaration
    \/ TransformEnd

SpecKC == Init /\ [][KC_Next]_vars

----------------------------------------------------------------------------
(* Running the output of src/index.js: the closure is called with the      *)
(* global object as `this`, and its statements run in order.  root holds   *)
(* the dotted paths below `this` that are defined; the objects the pages   *)
(* provide directly on the global object (this.myGlobal, ...) exist.       *)

\* the path names `this` or a property of the global object itself
IsTopLevel(path) == Len(Split(path, DOT)) <= 2

\* the path without its last segment
ParentPath(path) == SubSeq(path, 1, LastIndexOf(path, DOT, Len(path)) - 1)

\* the object at path exists
IsDefined(store, path) == IsTopLevel(path) \/ path \in store

\* the paths below path
Descendants(store, path) ==
    {q \in store : Len(q) > Len(path) /\ SubSeq(q, 1, Len(path) + 1) = path \o <<DOT>>}

\* expr reads a global path
IsGlobalRead(expr) ==
    /\ expr.type = "Identifier"
    /\ Len(expr.name) > Len(s_this)
    /\ SubSeq(expr.name, 1, Len(s_this) + 1) = s_this \o <<DOT>>

\* evaluating expr throws a TypeError: a property is read off an object
\* that does not exist
ReadThrows(store, expr) ==
    IsGlobalRead(expr) /\ ~IsDefined(store, ParentPath(expr.name))

\* `<path> = <right>`: returns [store, threw]
RunAssignment(store, path, right) ==
    IF ~IsDefined(store, ParentPath(path)) \/ ReadThrows(store, right)
    THEN [store |-> store, threw |-> TRUE]
    ELSE IF right.type = "LogicalExpression" /\ IsDefined(store, path)
    THEN [store |-> store, threw |-> FALSE]
    ELSE [store |-> (store \ Descendants(store, path)) \cup {path},
          threw |-> FALSE]

\* one statement of an output
RunStatement(store, stmt) ==
    IF stmt.type = "ExpressionStatement"
    THEN RunAssignment(store, stmt.expression.left.name, stmt.expression.right)
    ELSE IF stmt.type = "VariableDeclaration"
    THEN [store |-> store,
          threw |-> \E i \in 1..Len(stmt.declarations) :
                        /\ stmt.declarations[i].init # <<>>
                        /\ ReadThrows(store, stmt.declarations[i].init[1])]
    ELSE [store |-> store, threw |-> FALSE]

\* the statements stmts[i..]; a TypeError ends the script
RECURSIVE RunStatements(_, _, _)
RunStatements(store, stmts, i) ==
    IF i > Len(stmts) THEN store
    ELSE LET ran == RunStatement(store, stmts[i])
         IN IF ran.threw THEN ran.store
            ELSE RunStatements(ran.store, stmts, i + 1)

\* the transform of the file has ended and the page runs its output; the
\* model follows the page until a script has defined something
RunOutput ==
    /\ Finished
    /\ root = {}
    /\ root' = RunStatements(root, Contents, 1)
    /\ phase' = "idle"
    /\ filename' = <<>>
    /\ opts' = [globalName |-> StringGlobalName(<<>>)]
    /\ program' = <<>>
    /\ body' = <<>>
    /\ last' = NoLast
    /\ reused' = TRUE
    /\ UNCHANGED <<createdGlobals, filenameNoExtCache>>

\* the files of the page: foo/bar.js, whose output runs first, and
\* foo/bar.soy.js, transformed once that output has defined something
ProgramLoad ==
    /\ phase = "idle"
    /\ \E o \in Options :
          ProgramVisitor(IF root = {} THEN f_foo_bar_js ELSE f_foo_bar_soy_js,
                         o, <<>>)

NextLoad ==
    \/ ProgramLoad
    \/ OtherStatement
    \/ ImportDeclaration
    \/ ExportAllDeclaration
    \/ ExportDefaultDeclaration
    \/ ExportNamedDeclaration
    \/ TransformEnd
    \/ RunOutput

SpecLoad == Init /\ [][NextLoad]_vars

----------------------------------------------------------------------------
(* Properties: what the statements below are stated with                   *)

\* the visitor of the given construct type ran last and returned
Replaced(type) ==
    /\ phase = "visiting"
    /\ last.node.type = type
    /\ ~last.threw

\* the name of a file without directory and extensions, read off the
\* filename: the characters of its last portion before the first '.'
FileModuleName(fname) ==
    LET part == LastPart(fname)
        d == IndexOf(part, DOT, 1)
    IN IF d = 0 THEN part ELSE SubSeq(part, 1, d - 1)

\* p is the dotted path of a proper ancestor of the dotted path q
IsDotPrefix(p, q) ==
    /\ Len(p) < Len(q)
    /\ SubSeq(q, 1, Len(p)) = p
    /\ q[Len(p) + 1] = DOT

Assign(left, right) == ExpressionStatement(AssignmentExpression(left, right))

IsAssignment(stmt) ==
    /\ stmt.type = "ExpressionStatement"
    /\ stmt.expression.type = "AssignmentExpression"

\* stmt initializes a namespace that is a proper ancestor of path
\* (src/index.js builds it with an Identifier on the left)
IsCreationFor(stmt, path) ==
    /\ IsAssignment(stmt)
    /\ stmt.expression.right.type = "ObjectExpression"
    /\ stmt.expression.left.type = "Identifier"
    /\ IsDotPrefix(stmt.expression.left.name, path)

\* stmts is, for each expected assignment in order, the namespace creations
\* of ancestors of its target followed by the assignment itself
RECURSIVE ExportsFollow(_, _)
ExportsFollow(stmts, expected) ==
    IF expected = <<>> THEN stmts = <<>>
    ELSE IF stmts = <<>> THEN FALSE
    ELSE IF IsCreationFor(Head(stmts), Head(expected).expression.left.name)
         THEN ExportsFollow(Tail(stmts), expected)
    ELSE /\ Head(stmts) = Head(expected)
         /\ ExportsFollow(Tail(stmts), Tail(expected))

\* the path the naming policy gives module filePath and name, written out
\* from the README: <globalName>.<module> for a default export,
\* <globalName>Named.<module>[.<name>] for named exports and wildcards; a
\* globalName function gives the whole path
NamedPath(filePath, name, isWildcard) ==
    IF opts.globalName.kind = "function"
    THEN CallGlobalName(opts.globalName.fn, State(filename, opts), filePath, name,
                        isWildcard)
    ELSE Join(<<s_this,
                IF name # <<>> \/ isWildcard
                THEN opts.globalName.value \o s_Named
                ELSE opts.globalName.value,
                LastPart(path_resolve(path_dirname(filename), filePath))>>
              \o (IF name # <<>> THEN <<name>> ELSE <<>>), DOT)

\* the export path of name in the file being transformed
OwnExportPath(name) == NamedPath(FileModuleName(filename), name, FALSE)

----------------------------------------------------------------------------
(* C1  src/index.js: the Program visitor leaves exactly one top-level      *)
(* statement, the call (function () { ... }).call(this), whose function    *)
(* body is the file's statement list in order; the statements of a file    *)
(* without import/export construct are in it unchanged.                    *)
C1_ProgramWrapsBody ==
    phase \in {"visiting", "failed"} =>
        /\ Len(body) = 1
        /\ IsClosureCall(body[1])
        /\ ~HasConstruct(program) => ClosureContents(body[1]) = program

C1_Witness ==
    /\ phase = "visiting"
    /\ Len(program) = 2
    /\ ~HasConstruct(program)
    /\ body = <<ClosureCall(<<PlainStatement, PlainStatement>>)>>

(* C2  src/index.js, string globalName G, file in directory D:             *)
(* getGlobalIdentifier(m, n) is this.G.<last segment of resolve(D, m)>     *)
(* without name and wildcard, this.GNamed.<last segment> for a wildcard,   *)
(* this.GNamed.<last segment>.n for a name n.  Read off the bindings of    *)
(* imports, the values of re-exports and the target of a default export.   *)
C2_Path(m, n, isWildcard) ==
    LET segment == LastPart(path_resolve(path_dirname(filename), m))
        G == opts.globalName.value
    IN IF n # <<>> THEN s_this \o <<DOT>> \o G \o s_Named \o <<DOT>> \o segment
                          \o <<DOT>> \o n
       ELSE IF isWildcard THEN s_this \o <<DOT>> \o G \o s_Named \o <<DOT>> \o segment
       ELSE s_this \o <<DOT>> \o G \o <<DOT>> \o segment

C2_GlobalIdentifierPaths ==
    (phase = "visiting" /\ ~last.threw /\ opts.globalName.kind = "string") =>
        /\ last.node.type = "ImportDeclaration" =>
              /\ Len(last.replacements) = Len(last.node.specifiers)
              /\ \A i \in 1..Len(last.node.specifiers) :
                    last.replacements[i].declarations[1].init[1] =
                        Identifier(C2_Path(removeExtensions(last.node.source.value),
                                           ImportedName(last.node.specifiers[i]),
                                           last.node.specifiers[i].type =
                                               "ImportNamespaceSpecifier"))
        /\ last.node.type = "ExportDefaultDeclaration" =>
              /\ last.replacements # <<>>
              /\ last.replacements[Len(last.replacements)].expression.left =
                     Identifier(C2_Path(FileModuleName(filename), NoName, FALSE))
        /\ (last.node.type = "ExportNamedDeclaration" /\ last.node.source # <<>>) =>
              \A i \in 1..Len(last.replacements) :
                  last.replacements[i].expression.right.type = "Identifier" =>
                      \E j \in 1..Len(last.node.specifiers) :
                          last.replacements[i].expression.right =
                              Identifier(C2_Path(last.node.source[1].value,
                                                 last.node.specifiers[j].local.name,
                                                 FALSE))

C2_Witness ==
    /\ Replaced("ImportDeclaration")
    /\ opts.globalName.kind = "string"
    /\ last.node.source.value = src_up_foo
    /\ last.replacements =
           <<VariableDeclaration("var",
                 <<VariableDeclarator(Identifier(s_foo),
                       Identifier(s_this \o <<DOT>> \o s_myGlobal \o s_Named
                                    \o <<DOT>> \o s_foo \o <<DOT>> \o s_foo))>>)>>

(* C5  src/index.js, filename missing ('unknown').  As stated: visiting    *)
(* any import or export construct fails with the filename-required error.  *)
C5_EveryConstructFails ==
    (phase \in {"visiting", "failed"} /\ filename = s_unknown
        /\ IsModuleConstruct(last.node)) => last.threw

\* the constructs for which a global path is computed
ComputesGlobalPath(node) ==
    \/ node.type = "ImportDeclaration" /\ node.specifiers # <<>>
    \/ node.type = "ExportDefaultDeclaration"
    \/ /\ node.type = "ExportNamedDeclaration"
       /\ node.declaration # <<>> \/ node.specifiers # <<>>

(* C5 amended: with the filename missing, a construct fails with the       *)
(* filename-required error exactly when a global path is computed for it:  *)
(* an import with at least one specifier, a default export, a named export *)
(* with a declaration or at least one specifier.  A side-effect import, an *)
(* export-all and a named export without specifiers are dropped without    *)
(* error.  With a filename no construct fails.                             *)
C5_PathConstructsFail ==
    (phase \in {"visiting", "failed"} /\ IsModuleConstruct(last.node)) =>
        /\ last.threw = (filename = s_unknown /\ ComputesGlobalPath(last.node))
        /\ (phase = "failed") = last.threw

C5_Witness ==
    /\ phase = "failed"
    /\ filename = s_unknown
    /\ last.threw
    /\ last.node.type = "ExportNamedDeclaration"
    /\ last.node.specifiers # <<>>
    /\ last.node.source # <<>>

(* C8  src/index.js: a named export with an inline declaration is replaced *)
(* by the original declaration first, then for each declared name in order *)
(* the creation of the namespaces its export path still needs followed by  *)
(* the assignment <export path of the name> = <the name>; no assignment    *)
(* precedes the declaration.                                               *)
DeclaredNames(declaration) ==
    IF declaration.type = "VariableDeclaration"
    THEN [i \in 1..Len(declaration.declarations) |-> declaration.declarations[i].id]
    ELSE <<declaration.id>>

C8_DeclarationThenAssignments ==
    (Replaced("ExportNamedDeclaration") /\ last.node.declaration # <<>>) =>
        LET names == DeclaredNames(last.node.declaration[1])
        IN /\ last.replacements # <<>>
           /\ last.replacements[1] = last.node.declaration[1]
           /\ ExportsFollow(Tail(last.replacements),
                  [i \in 1..Len(names) |->
                      Assign(Identifier(OwnExportPath(names[i].name)), names[i])])

C8_Witness ==
    /\ Replaced("ExportNamedDeclaration")
    /\ last.node.declaration # <<>>
    /\ last.node.declaration[1].type = "VariableDeclaration"
    /\ Len(last.node.declaration[1].declarations) = 2
    /\ Len(last.replacements) = 4
    /\ IsCreationFor(last.replacements[2], OwnExportPath(s_foo))

(* C9  src/index.js: a named export of local bindings, without source and  *)
(* without declaration, is replaced by one assignment per specifier        *)
(* `local as exported`, in order: <export path of exported> = local, each  *)
(* preceded by the namespace creations still needed.                       *)
C9_LocalBindingAssigned ==
    (Replaced("ExportNamedDeclaration") /\ last.node.declaration = <<>>
        /\ last.node.source = <<>>) =>
        ExportsFollow(last.replacements,
            [i \in 1..Len(last.node.specifiers) |->
                Assign(Identifier(OwnExportPath(last.node.specifiers[i].exported.name)),
                       last.node.specifiers[i].local)])

(* C10  src/index.js: a re-export `export {local as exported} from m` is   *)
(* replaced by one assignment per specifier, in order: <export path of     *)
(* exported in this file> = <named-export path of local in module m>; the  *)
(* value is a global path, never a local binding.                          *)
C10_ReExportAssignsSourcePath ==
    (Replaced("ExportNamedDeclaration") /\ last.node.source # <<>>) =>
        ExportsFollow(last.replacements,
            [i \in 1..Len(last.node.specifiers) |->
                Assign(Identifier(OwnExportPath(last.node.specifiers[i].exported.name)),
                       Identifier(NamedPath(last.node.source[1].value,
                                            last.node.specifiers[i].local.name,
                                            FALSE)))])

C10_Witness ==
    /\ Replaced("ExportNamedDeclaration")
    /\ last.node.source # <<>>
    /\ Len(last.node.specifiers) = 2
    /\ last.node.specifiers[2].local # last.node.specifiers[2].exported
    /\ \E i \in 1..Len(last.replacements) :
          /\ IsAssignment(last.replacements[i])
          /\ last.replacements[i].expression.right =
                 Identifier(NamedPath(last.node.source[1].value,
                                      last.node.specifiers[2].local.name, FALSE))

----------------------------------------------------------------------------
(* Properties of the root-relative variant (src/unnamed/part_000:1-320)    *)

\* d1, ..., dk, m: the directories from the project root to the file and
\* the file's name without extensions, read off the filename
RootRelativeSegments(fname) ==
    LET below == Split(SubSeq(fname, Len(Cwd) + 2, Len(fname)), SEP)
    IN SubSeq(below, 1, Len(below) - 1) \o <<FileModuleName(fname)>>

\* this.G.d1. ... .di as nested member accesses
RECURSIVE NamespaceChain(_, _, _)
NamespaceChain(G, segments, i) ==
    IF i = 0 THEN MemberExpression(ThisExpression, Identifier(G), FALSE)
    ELSE MemberExpression(NamespaceChain(G, segments, i - 1),
                          Identifier(segments[i]), FALSE)

\* this.G.d1. ... .di = this.G.d1. ... .di || {}
NamespaceStatement(G, segments, i) ==
    ExpressionStatement(
        AssignmentExpression(NamespaceChain(G, segments, i),
            LogicalExpression("||", NamespaceChain(G, segments, i),
                              ObjectExpression)))

(* C3  root-relative variant: a default export of a file at d1/.../dk/m    *)
(* under the root is replaced by exactly the k statements                  *)
(* this.G.d1...di = this.G.d1...di || {}, i = 1..k, in that order, then    *)
(* the one assignment this.G.d1...dk.m = <expression>.                     *)
C3_DefaultExportStatements ==
    Replaced("ExportDefaultDeclaration") =>
        LET segments == RootRelativeSegments(filename)
            k == Len(segments) - 1
        IN last.replacements =
               [i \in 1..k |-> NamespaceStatement(opts.globalName, segments, i)]
               \o <<Assign(Identifier(Join(<<s_this, opts.globalName>> \o segments,
                                           DOT)),
                           last.node.declaration)>>

(* C4  root-relative variant: an import with n specifiers is replaced by   *)
(* exactly n variable declarations, one per specifier in order, each       *)
(* binding the specifier's local name to a read of a global path; no       *)
(* namespace-creation statement, and no other statement, is emitted.       *)
C4_ImportBindsSpecifiers ==
    Replaced("ImportDeclaration") =>
        /\ Len(last.replacements) = Len(last.node.specifiers)
        /\ \A i \in 1..Len(last.node.specifiers) :
              /\ last.replacements[i].type = "VariableDeclaration"
              /\ last.replacements[i].kind = "var"
              /\ Len(last.replacements[i].declarations) = 1
              /\ last.replacements[i].declarations[1].id =
                     last.node.specifiers[i].local
              /\ last.replacements[i].declarations[1].init # <<>>
              /\ last.replacements[i].declarations[1].init[1].type
                     \in {"Identifier", "LogicalExpression"}

C4_Witness ==
    /\ Replaced("ImportDeclaration")
    /\ Len(last.node.specifiers) = 2
    /\ Len(last.replacements) = 2
    /\ last.replacements[2].declarations[1].id = last.node.specifiers[2].local
    /\ last.replacements[2].declarations[1].init[1].type = "Identifier"

(* C6  root-relative variant: for an import whose source string is a key   *)
(* of the externals map with value X, every binding of the import is       *)
(* initialized to this.X["default"] || this.X, whatever the specifier, and *)
(* no path-based naming is applied.                                        *)
C6_ExternalImportBindings ==
    (phase \in {"visiting", "failed"} /\ last.node.type = "ImportDeclaration"
        /\ last.node.source.value \in DOMAIN opts.externals) =>
        LET X == opts.externals[last.node.source.value]
            thisX == MemberExpression(ThisExpression, Identifier(X), FALSE)
        IN /\ ~last.threw
           /\ Len(last.replacements) = Len(last.node.specifiers)
           /\ \A i \in 1..Len(last.node.specifiers) :
                 last.replacements[i].declarations[1].init[1] =
                     LogicalExpression("||",
                         MemberExpression(thisX, StringLiteral(s_default), TRUE),
                         thisX)

(* C7  root-relative variant: with the option transformOnlyModules set, a  *)
(* file without import and export construct is left as it is: no wrapping  *)
(* closure and no other change.                                            *)
C7_PlainFileUntouched ==
    (phase = "visiting" /\ opts.transformOnlyModules /\ program # <<>>
        /\ ~HasConstruct(program)) => body = program

----------------------------------------------------------------------------
\* the dotted path a chain of computed string-keyed members denotes
RECURSIVE KC_PathOf(_)
KC_PathOf(expr) ==
    IF expr.type = "MemberExpression"
    THEN KC_PathOf(expr.object) \o <<DOT>> \o expr.property.value
    ELSE expr.name

\* <namespace> = <namespace> || {}
KC_IsCreation(stmt) ==
    /\ IsAssignment(stmt)
    /\ stmt.expression.left.type = "MemberExpression"
    /\ stmt.expression.right =
           LogicalExpression("||", stmt.expression.left, ObjectExpression)

(* C11  key-copy variant: a default export of a named function or class    *)
(* declaration is replaced by the declaration itself, as the first         *)
(* statement, and ends with the assignment <default path> = <its name>;    *)
(* any other default export ends with the one assignment                   *)
(* <default path> = <expression> (a declaration without name in its        *)
(* expression form); the only statements before the assignment, besides    *)
(* the hoisted declaration, are namespace creations.                       *)
C11_NamedDeclarationHoisted ==
    Replaced("ExportDefaultDeclaration") =>
        LET d == last.node.declaration
            r == last.replacements
            n == Len(r)
            named == /\ d.type \in {"FunctionDeclaration", "ClassDeclaration"}
                     /\ d.id # NoNode
            asExpression ==
                IF d.type = "FunctionDeclaration"
                THEN [type |-> "FunctionExpression", id |-> d.id]
                ELSE IF d.type = "ClassDeclaration"
                THEN [type |-> "ClassExpression", id |-> d.id]
                ELSE d
        IN /\ n >= 1
           /\ IsAssignment(r[n])
           /\ KC_PathOf(r[n].expression.left) = OwnExportPath(NoName)
           /\ IF named
              THEN /\ n >= 2
                   /\ r[1] = d
                   /\ r[n].expression.right = d.id
                   /\ \A i \in 2..(n - 1) : KC_IsCreation(r[i])
              ELSE /\ r[n].expression.right = asExpression
                   /\ \A i \in 1..(n - 1) : KC_IsCreation(r[i])

\* export default function foo() {} under the Test.Exports policy:
\* function foo() {}; this.Test.Exports = this.Test.Exports || {};
\* this.Test.Exports.default = foo
C11_Witness ==
    /\ Replaced("ExportDefaultDeclaration")
    /\ last.node.declaration = FunctionDeclaration(s_foo)
    /\ Len(last.replacements) = 3
    /\ last.replacements[1] = FunctionDeclaration(s_foo)
    /\ KC_IsCreation(last.replacements[2])
    /\ KC_PathOf(last.replacements[2].expression.left) = s_TestExports
    /\ KC_PathOf(last.replacements[3].expression.left)
           = s_TestExports \o <<DOT>> \o s_default
    /\ last.replacements[3].expression.right = Identifier(s_foo)

----------------------------------------------------------------------------
(* C12  src/index.js: every export-all declaration is replaced by the      *)
(* empty statement sequence, and the visit changes neither the             *)
(* created-globals memo nor the filename cache.                            *)
C12_ExportAllDropped ==
    [][(Len(program') = Len(program) + 1
          /\ last'.node.type = "ExportAllDeclaration") =>
           /\ ~last'.threw
           /\ last'.replacements = <<>>
           /\ ClosureContents(body'[1]) = Contents
           /\ createdGlobals' = createdGlobals
           /\ filenameNoExtCache' = filenameNoExtCache]_vars

C12_Witness ==
    /\ Replaced("ExportAllDeclaration")
    /\ Len(program) = 2
    /\ createdGlobals # {}
    /\ filenameNoExtCache # <<>>
    /\ Contents # <<>>

(* C13  src/index.js, globalName a function: it is called with             *)
(* (state, filePath, name, isWildcard) and the path it returns is used as  *)
(* is, without 'Named' marker, path resolution or appended segment; the    *)
(* import bindings and the export statements are built from that path.     *)
C13_Returned(filePath, name, isWildcard) ==
    Identifier(CallGlobalName(opts.globalName.fn, State(filename, opts),
                              filePath, name, isWildcard))

C13_FunctionPathAsIs ==
    (phase = "visiting" /\ ~last.threw /\ opts.globalName.kind = "function") =>
        /\ last.node.type = "ImportDeclaration" =>
              /\ Len(last.replacements) = Len(last.node.specifiers)
              /\ \A i \in 1..Len(last.node.specifiers) :
                    last.replacements[i].declarations[1].init[1] =
                        C13_Returned(removeExtensions(last.node.source.value),
                                     ImportedName(last.node.specifiers[i]),
                                     last.node.specifiers[i].type =
                                         "ImportNamespaceSpecifier")
        /\ last.node.type = "ExportDefaultDeclaration" =>
              /\ last.replacements # <<>>
              /\ last.replacements[Len(last.replacements)] =
                     Assign(C13_Returned(FileModuleName(filename), NoName, FALSE),
                            last.node.declaration)
        /\ (last.node.type = "ExportNamedDeclaration"
              /\ last.node.declaration # <<>>) =>
              LET names == DeclaredNames(last.node.declaration[1])
              IN \A i \in 1..Len(names) :
                    \E j \in 1..Len(last.replacements) :
                        last.replacements[j] =
                            Assign(C13_Returned(FileModuleName(filename),
                                                names[i].name, FALSE),
                                   names[i])
        /\ (last.node.type = "ExportNamedDeclaration"
              /\ last.node.source # <<>>) =>
              \A i \in 1..Len(last.node.specifiers) :
                  \E j \in 1..Len(last.replacements) :
                      last.replacements[j] =
                          Assign(C13_Returned(FileModuleName(filename),
                                     last.node.specifiers[i].exported.name, FALSE),
                                 C13_Returned(last.node.source[1].value,
                                     last.node.specifiers[i].local.name, FALSE))

C13_Witness ==
    /\ Replaced("ImportDeclaration")
    /\ opts.globalName = FunctionGlobalName("ByModule")
    /\ last.node.source.value = src_foo_soy
    /\ last.replacements =
           <<VariableDeclaration("var",
                 <<VariableDeclarator(Identifier(s_foo),
                       Identifier(s_this \o <<DOT>> \o s_Named \o <<DOT>> \o s_foo
                                    \o <<DOT>> \o s_foo))>>)>>

(* C14  root-relative variant: for an import source s, with or without     *)
(* directory components, and a chain e of one or more extensions,          *)
(* importing from s followed by e binds the same global paths as importing *)
(* from s: stripping removes every extension and nothing else.             *)
\* the source without the extensions of its last portion
SourceStem(source) ==
    LET sep == LastIndexOf(source, SEP, Len(source))
        d == IndexOf(source, DOT, sep + 2)
    IN IF d = 0 THEN source ELSE SubSeq(source, 1, d - 1)

C14_ExtensionsOnlyStripped ==
    (phase \in {"visiting", "failed"} /\ last.node.type = "ImportDeclaration"
        /\ SourceStem(last.node.source.value) # last.node.source.value) =>
        LET alone == RR_ImportDeclarationVisitor(
                         State(filename, opts),
                         ImportDeclarationNode(SourceStem(last.node.source.value),
                                               last.node.specifiers),
                         Context(createdGlobals, filenameNoExtCache))
        IN /\ last.threw = alone.threw
           /\ ~last.threw => last.replacements = alone.nodes

(* C16  root-relative variant: the transform of a file that has both a     *)
(* default export and a named export fails with an error, whichever of the *)
(* two comes first.                                                        *)
HasType(stmts, type) == \E i \in 1..Len(stmts) : stmts[i].type = type

C16_MixedExportsFail ==
    (phase \in {"visiting", "failed"}
        /\ HasType(program, "ExportDefaultDeclaration")
        /\ HasType(program, "ExportNamedDeclaration")) => phase = "failed"

----------------------------------------------------------------------------
\* stmt is a namespace initialization `<path> = {}` of src/index.js
IsCreation(stmt) ==
    /\ IsAssignment(stmt)
    /\ stmt.expression.right.type = "ObjectExpression"
    /\ stmt.expression.left.type = "Identifier"

RECURSIVE WithoutCreations(_)
WithoutCreations(stmts) ==
    IF stmts = <<>> THEN <<>>
    ELSE IF IsCreation(Head(stmts)) THEN WithoutCreations(Tail(stmts))
    ELSE <<Head(stmts)>> \o WithoutCreations(Tail(stmts))

Occurs(stmt, stmts) == \E i \in 1..Len(stmts) : stmts[i] = stmt

\* what the visitor of an export construct gives when no other construct
\* of the file has been visited
ExportAlone(node) ==
    IF node.type = "ExportDefaultDeclaration"
    THEN ExportDefaultDeclarationVisitor(State(filename, opts), node,
                                         Context({}, <<>>))
    ELSE ExportNamedDeclarationVisitor(State(filename, opts), node,
                                       Context({}, <<>>))

\* the file is a default export and a named export, in either order
DefaultAndNamed ==
    /\ phase \in {"visiting", "failed"}
    /\ filename # s_unknown
    /\ Len(program) = 2
    /\ {program[1].type, program[2].type} =
           {"ExportDefaultDeclaration", "ExportNamedDeclaration"}

(* C15  src/index.js, as stated: a file with a default export and named    *)
(* exports, in either order, is transformed without error, the statements  *)
(* of each construct are at the position of the construct, and the output  *)
(* of each construct is the same as if the other construct were absent.    *)
C15_SameAsAlone ==
    DefaultAndNamed =>
        /\ phase = "visiting"
        /\ Contents = ExportAlone(program[1]).nodes \o ExportAlone(program[2]).nodes

(* C15 amended: the file is transformed without error and the statements   *)
(* of each construct are at the position of the construct.  The first      *)
(* construct's output and the assignments of the second are the same as if *)
(* the other construct were absent; the second construct's output is its   *)
(* output alone without some of its namespace initializations, among them  *)
(* every one the first construct has emitted.  With a string globalName    *)
(* none is left out.                                                       *)
C15_SameAssignmentsAsAlone ==
    DefaultAndNamed =>
        LET first == ExportAlone(program[1]).nodes
            second == ExportAlone(program[2]).nodes
            rest == SubSeq(Contents, Len(first) + 1, Len(Contents))
        IN /\ phase = "visiting"
           /\ Len(Contents) >= Len(first)
           /\ SubSeq(Contents, 1, Len(first)) = first
           /\ WithoutCreations(rest) = WithoutCreations(second)
           /\ \A i \in 1..Len(rest) : Occurs(rest[i], second)
           /\ \A i \in 1..Len(second) :
                 (IsCreation(second[i]) /\ Occurs(second[i], first)) =>
                     ~Occurs(second[i], rest)
           /\ opts.globalName.kind = "string" => rest = second

C15_Witness ==
    /\ DefaultAndNamed
    /\ phase = "visiting"
    /\ opts.globalName = FunctionGlobalName("TestExports")
    /\ program[1].type = "ExportDefaultDeclaration"
    /\ program[2].specifiers # <<>>
    /\ Len(Contents) = 2 + Len(program[2].specifiers)
    /\ Contents # ExportAlone(program[1]).nodes \o ExportAlone(program[2]).nodes

(* C17  src/index.js: whatever constructs are visited in a file and        *)
(* whatever the naming policy, the output of the file has at most one      *)
(* namespace-initialization statement for any given prefix.                *)
C17_CreatedAtMostOnce ==
    phase \in {"visiting", "failed"} =>
        \A i, j \in 1..Len(Contents) :
            (i < j /\ IsCreation(Contents[i]) /\ IsCreation(Contents[j])) =>
                Contents[i].expression.left # Contents[j].expression.left

C17_Witness ==
    /\ phase = "visiting"
    /\ Len(program) = 2
    /\ \A i \in 1..2 : /\ program[i].type = "ExportNamedDeclaration"
                       /\ program[i].source = <<>>
                       /\ program[i].declaration = <<>>
                       /\ Len(program[i].specifiers) = 1
    /\ Len(Contents) = 3
    /\ IsCreation(Contents[1])
    /\ ~IsCreation(Contents[2])
    /\ ~IsCreation(Contents[3])

(* C18  src/index.js: whatever export constructs a file has and whatever   *)
(* the naming policy, every emitted assignment to a path this.s1.s2...sk   *)
(* with k >= 3 is preceded in the file's output by an initialization of    *)
(* each intermediate prefix this.s1.s2, ..., this.s1...s(k-1) (parents     *)
(* before children, an initialization being an assignment itself).         *)
\* the proper prefixes this.s1.s2, ... of a dotted path
IntermediatePrefixes(path) ==
    {SubSeq(path, 1, d - 1) :
        d \in {e \in 1..Len(path) :
                  /\ path[e] = DOT
                  /\ Len(Split(SubSeq(path, 1, e - 1), DOT)) >= 3}}

C18_PrefixesInitializedBefore ==
    phase \in {"visiting", "failed"} =>
        \A j \in 1..Len(Contents) :
            (IsAssignment(Contents[j])
                /\ Contents[j].expression.left.type = "Identifier") =>
                \A q \in IntermediatePrefixes(Contents[j].expression.left.name) :
                    \E i \in 1..(j - 1) :
                        /\ IsCreation(Contents[i])
                        /\ Contents[i].expression.left.name = q

(* C19  src/index.js: for files transformed one after another by the same  *)
(* plugin instance, failed transforms included, the output of each file is *)
(* the output of a fresh plugin instance for that file alone: the memo is  *)
(* empty and the filename cache cleared before the first construct.        *)
VisitorOf(node, ctx) ==
    IF node.type = "ImportDeclaration"
    THEN ImportDeclarationVisitor(State(filename, opts), node, ctx)
    ELSE IF node.type = "ExportAllDeclaration"
    THEN ExportAllDeclarationVisitor(State(filename, opts), node, ctx)
    ELSE IF node.type = "ExportDefaultDeclaration"
    THEN ExportDefaultDeclarationVisitor(State(filename, opts), node, ctx)
    ELSE ExportNamedDeclarationVisitor(State(filename, opts), node, ctx)

\* the transform of the statements stmts[i..] by an instance whose memo
\* and cache are as given, run [createdGlobals, filenameNoExtCache,
\* contents, threw]
\* the run after the visitor of stmt has returned ctx
Replayed(run, stmt, ctx) ==
    [createdGlobals |-> ctx.createdGlobals,
     filenameNoExtCache |-> ctx.filenameNoExtCache,
     contents |-> IF ctx.threw THEN Append(run.contents, stmt)
                  ELSE run.contents \o ctx.nodes,
     threw |-> ctx.threw]

RECURSIVE Replay(_, _, _)
Replay(stmts, i, run) ==
    IF i > Len(stmts) \/ run.threw THEN run
    ELSE IF ~IsModuleConstruct(stmts[i])
    THEN Replay(stmts, i + 1, [run EXCEPT !.contents = Append(@, stmts[i])])
    ELSE Replay(stmts, i + 1,
             CHOOSE next \in
                 {Replayed(run, stmts[i], ctx) :
                     ctx \in {VisitorOf(stmts[i],
                                  Context(run.createdGlobals,
                                          run.filenameNoExtCache))}} : TRUE)

FreshRun ==
    Replay(program, 1, [createdGlobals |-> {}, filenameNoExtCache |-> <<>>,
                        contents |-> <<>>, threw |-> FALSE])

C19_AsFreshInstance ==
    phase \in {"visiting", "failed"} =>
        \A fresh \in {FreshRun} :
            /\ Contents = fresh.contents
            /\ createdGlobals = fresh.createdGlobals
            /\ filenameNoExtCache = fresh.filenameNoExtCache
            /\ (phase = "failed") = fresh.threw

C19_Witness ==
    /\ reused
    /\ phase = "visiting"
    /\ Len(program) = 2
    /\ program[2].type = "ExportNamedDeclaration"
    /\ last.replacements # <<>>
    /\ IsCreation(last.replacements[1])

----------------------------------------------------------------------------
(* C20  Babel-5 variant: for two files transformed one after the other by  *)
(* the same transformer instance, the export paths and the namespace       *)
(* initializations of the second file are computed from the second file's  *)
(* own filename and from an empty created-globals memo.                    *)
B5_VisitorOf(node, ctx) ==
    IF node.type = "ImportDeclaration"
    THEN B5_ImportDeclarationVisitor(B5_StateOpts(filename, opts), node, ctx)
    ELSE IF node.type = "ExportAllDeclaration"
    THEN B5_ExportAllDeclarationVisitor(B5_StateOpts(filename, opts), node, ctx)
    ELSE IF node.type = "ExportDefaultDeclaration"
    THEN B5_ExportDefaultDeclarationVisitor(B5_StateOpts(filename, opts), node, ctx)
    ELSE B5_ExportNamedDeclarationVisitor(B5_StateOpts(filename, opts), node, ctx)

RECURSIVE B5_Replay(_, _, _)
B5_Replay(stmts, i, run) ==
    IF i > Len(stmts) \/ run.threw THEN run
    ELSE IF ~IsModuleConstruct(stmts[i])
    THEN B5_Replay(stmts, i + 1, [run EXCEPT !.contents = Append(@, stmts[i])])
    ELSE B5_Replay(stmts, i + 1,
             CHOOSE next \in
                 {Replayed(run, stmts[i], ctx) :
                     ctx \in {B5_VisitorOf(stmts[i],
                                  Context(run.createdGlobals,
                                          run.filenameNoExtCache))}} : TRUE)

\* the file transformed with an empty memo and no cached filename
B5_FreshRun ==
    B5_Replay(program, 1, [createdGlobals |-> {}, filenameNoExtCache |-> <<>>,
                           contents |-> <<>>, threw |-> FALSE])

C20_SecondFileOnItsOwn ==
    (reused /\ phase \in {"visiting", "failed"}) =>
        \A fresh \in {B5_FreshRun} :
            /\ (phase = "failed") = fresh.threw
            /\ Contents = fresh.contents

----------------------------------------------------------------------------
\* <path> = <value>, the value not a fresh empty object
IsExportAssignment(stmt) ==
    /\ IsAssignment(stmt)
    /\ stmt.expression.left.type = "Identifier"
    /\ stmt.expression.right.type # "ObjectExpression"

\* the number of export assignments among stmts
ExportAssignmentCount(stmts) ==
    Cardinality({i \in 1..Len(stmts) : IsExportAssignment(stmts[i])})

\* the number of names a named export exports
ExportSites(node) ==
    IF node.declaration # <<>> THEN Len(DeclaredNames(node.declaration[1]))
    ELSE Len(node.specifiers)

(* C21  root-relative variant: a named export with k specifiers or         *)
(* declared names is replaced by statements holding exactly k export       *)
(* assignments, also when a name has been exported before in the file.     *)
C21_OneAssignmentPerSite ==
    Replaced("ExportNamedDeclaration") =>
        ExportAssignmentCount(last.replacements) = ExportSites(last.node)

----------------------------------------------------------------------------
\* stmt assigns a path an empty object, guarded or not
IsInitialization(stmt) ==
    /\ IsAssignment(stmt)
    /\ stmt.expression.right.type \in {"ObjectExpression", "LogicalExpression"}

(* C22  src/index.js: every namespace initialization among the statements  *)
(* that replace an export has the guarded form P = P || {}, never the      *)
(* form P = {}.                                                            *)
C22_InitializationsGuarded ==
    (phase = "visiting" /\ ~last.threw) =>
        \A i \in 1..Len(last.replacements) :
            IsInitialization(last.replacements[i]) =>
                last.replacements[i].expression.right =
                    LogicalExpression("||", last.replacements[i].expression.left,
                                      ObjectExpression)

----------------------------------------------------------------------------
\* the full paths the statements stmts assign
AssignedPaths(stmts) ==
    {stmts[i].expression.left.name : i \in {j \in 1..Len(stmts) : IsAssignment(stmts[j])}}

(* C23  src/index.js: when the output of a second file runs on the global   *)
(* object the output of a first file has run on, every path the first      *)
(* output defined is still defined afterwards, unless the second output    *)
(* assigns that very path.                                                 *)
C23_FirstFileExportsKept ==
    (phase = "visiting" /\ root # {}) =>
        \A p \in root :
            \/ p \in RunStatements(root, Contents, 1)
            \/ p \in AssignedPaths(Contents)

----------------------------------------------------------------------------
\* Object.keys(<source>).forEach(function (key) { <own>[key] = ... })
IsKeyCopy(stmt) ==
    /\ stmt.type = "ExpressionStatement"
    /\ stmt.expression.type = "CallExpression"

\* the namespace the keys are read from
KeyCopySource(stmt) == stmt.expression.callee.object.arguments[1]

\* the namespace the keys are written to
KeyCopyTarget(stmt) == stmt.expression.arguments[1].body.body[1].expression.left.object

(* C24  key-copy variant: the output of a file ends, after `export * from  *)
(* X` has been replaced, with the statement that copies the keys, and      *)
(* before it the output initializes both the named-export namespace of the *)
(* current module and the named-export namespace of X.                     *)
C24_BothNamespacesInitialized ==
    Replaced("ExportAllDeclaration") =>
        /\ Contents # <<>>
        /\ IsKeyCopy(Contents[Len(Contents)])
        /\ \A namespace \in {KeyCopyTarget(Contents[Len(Contents)]),
                             KeyCopySource(Contents[Len(Contents)])} :
               \E i \in 1..(Len(Contents) - 1) :
                   Contents[i] = KC_CreateGlobalStatement(namespace)

----------------------------------------------------------------------------
(* C25  src/index.js: when the visit of a construct fails with the         *)
(* filename-required error, the construct stays in the output as it was,   *)
(* nothing of its replacement list is added, and createdGlobals and        *)
(* filenameNoExtCache are as they were before the visit.                   *)
C25_FailedVisitLeavesNoTrace ==
    [][(phase = "visiting" /\ phase' = "failed") =>
          /\ Contents' = Append(Contents, last'.node)
          /\ createdGlobals' = createdGlobals
          /\ filenameNoExtCache' = filenameNoExtCache]_vars

\* `export var foo` without filename: the visitor has pushed the
\* declaration onto its replacement list before the error
C25_Witness ==
    /\ phase = "failed"
    /\ last.threw
    /\ last.node.type = "ExportNamedDeclaration"
    /\ last.node.declaration # <<>>
    /\ Contents[Len(Contents)] = last.node
    /\ Len(program) = 2
    /\ createdGlobals = {}
    /\ filenameNoExtCache = <<>>

----------------------------------------------------------------------------
\* var <local> = <global path>: the statement an import specifier becomes
IsImportBinding(stmt) ==
    /\ stmt.type = "VariableDeclaration"
    /\ Len(stmt.declarations) = 1
    /\ stmt.declarations[1].init # <<>>
    /\ IsGlobalRead(stmt.declarations[1].init[1])

\* stmts without the statements in dropped
RECURSIVE Without(_, _)
Without(stmts, dropped) ==
    IF stmts = <<>> THEN <<>>
    ELSE IF Head(stmts) \in dropped THEN Without(Tail(stmts), dropped)
    ELSE <<Head(stmts)>> \o Without(Tail(stmts), dropped)

\* the file read so far with its import declarations taken out
ProgramWithoutImports ==
    Without(program, {program[i] : i \in {j \in 1..Len(program) :
                                             program[j].type = "ImportDeclaration"}})

\* the output so far with the bindings of imports taken out
ContentsWithoutImports ==
    Without(Contents, {Contents[i] : i \in {j \in 1..Len(Contents) :
                                               IsImportBinding(Contents[j])}})

(* C26  src/index.js: the visit of an import declaration leaves            *)
(* createdGlobals and filenameNoExtCache as they are, and the statements   *)
(* the other constructs of a file are replaced by are those of the file    *)
(* without its imports.                                                    *)
C26_ImportsLeaveMemo ==
    /\ [][(phase = "visiting" /\ program' # program
              /\ last'.node.type = "ImportDeclaration") =>
             /\ createdGlobals' = createdGlobals
             /\ filenameNoExtCache' = filenameNoExtCache]_vars
    /\ [](phase = "visiting" =>
             \A alone \in {Replay(ProgramWithoutImports, 1,
                                  [createdGlobals |-> {},
                                   filenameNoExtCache |-> <<>>,
                                   contents |-> <<>>, threw |-> FALSE])} :
                 /\ ~alone.threw
                 /\ alone.contents = ContentsWithoutImports
                 /\ alone.createdGlobals = createdGlobals)

\* import foo from "./foo" followed by an export that creates a namespace
C26_Witness ==
    /\ Replaced("ExportNamedDeclaration")
    /\ Len(program) = 2
    /\ program[1].type = "ImportDeclaration"
    /\ program[1].specifiers # <<>>
    /\ IsImportBinding(Contents[1])
    /\ \E i \in 1..Len(last.replacements) : IsCreation(last.replacements[i])

----------------------------------------------------------------------------
\* './foo' and './foo/bar': a module and a module in the directory of its
\* name
ModuleSources == {src_foo, src_foo \o <<SEP>> \o s_bar}

(* C27  root-relative variant: for all modules p, q and names n the path   *)
(* of the default export of p differs from the path of the named export n  *)
(* of q and from the path of the named-export namespace of q.              *)
C27_DefaultPathsApart ==
    (phase = "visiting" /\ filename # s_unknown) =>
        \A p \in ModuleSources, q \in ModuleSources :
            LET state == State(filename, opts)
                default == RR_getGlobalIdentifier(state, p, NoName, FALSE).id.name
            IN /\ default # RR_getGlobalIdentifier(state, q, NoName, TRUE).id.name
               /\ \A i \in 1..Len(NamePool) :
                      default # RR_getGlobalIdentifier(state, q, NamePool[i],
                                                       FALSE).id.name

----------------------------------------------------------------------------
\* the path `import {n} from m` binds n to
ImportedPath(m, n) ==
    LET ctx == ImportDeclarationVisitor(
                   State(filename, opts),
                   ImportDeclarationNode(m, <<ImportSpecifier(n, n)>>),
                   Context(createdGlobals, filenameNoExtCache))
    IN ctx.nodes[1].declarations[1].init[1].name

\* the path `export {n} from m` assigns the value of
ReExportedPath(m, n) ==
    LET ctx == ExportNamedDeclarationVisitor(
                   State(filename, opts),
                   ExportNamedDeclarationNode(<<>>, <<ExportSpecifier(n, n)>>,
                                              <<StringLiteral(m)>>),
                   Context(createdGlobals, filenameNoExtCache))
    IN ctx.nodes[Len(ctx.nodes)].expression.right.name

(* C28  src/index.js: for every source m, with or without extension, and   *)
(* every name n, `import {n} from m` and `export {n} from m` in a file     *)
(* read the same global path.                                              *)
C28_ImportAndReExportAgree ==
    (phase = "visiting" /\ filename # s_unknown) =>
        \A m \in {src_foo, src_foo_soy, src_up_foo} :
            \A i \in 1..Len(NamePool) :
                ImportedPath(m, NamePool[i]) = ReExportedPath(m, NamePool[i])

----------------------------------------------------------------------------
\* every segment of the dotted path is a name: a segment '', '.' or '..'
\* of the module path leaves an empty piece between two dots
HasNameSegments(path) ==
    LET segments == Split(path, DOT)
    IN /\ segments # <<>>
       /\ \A i \in 1..Len(segments) : segments[i] # <<>>

(* C29  root-relative variant: the global path built for a source, from    *)
(* any current file, has no empty segment and no segment '.' or '..',      *)
(* also when the source lies outside the root directory.                   *)
C29_SegmentsAreNames ==
    (phase = "visiting" /\ filename # s_unknown) =>
        \A m \in {src_foo, src_sub_foo_js, src_up_foo} :
            \A name \in {NoName, s_foo} :
                HasNameSegments(
                    RR_getGlobalIdentifier(State(filename, opts), m, name,
                                           FALSE).id.name)

----------------------------------------------------------------------------
\* the location of the module a source of the current file names
ModuleLocation(m) == path_resolve(path_dirname(filename), m)

(* C30  src/index.js, string globalName: two modules at different          *)
(* locations never have the same default-export path, nor the same path    *)
(* for a named export of the same name.                                    *)
C30_PathsInjective ==
    (phase = "visiting" /\ filename # s_unknown /\ opts.globalName.kind = "string") =>
        \A p \in {src_foo, src_up_foo}, q \in {src_foo, src_up_foo} :
            ModuleLocation(p) # ModuleLocation(q) =>
                \A name \in {NoName, s_foo} :
                    getGlobalIdentifier(State(filename, opts), p, name, FALSE).id.name
                        # getGlobalIdentifier(State(filename, opts), q, name,
                                              FALSE).id.name

====
